---------------------------- MODULE Spec2Model ----------------------------
(* A model of the STS architectural audit engine (sts_checker.py):        *)
(* configuration discovery and merge, per-file audit, project aggregation *)
(* and the command-line driver.                                           *)
EXTENDS Integers, Sequences, FiniteSets, TLC

VARIABLES
    cwd,          \* working directory of the process (absolute parts)
    target,       \* args.target as spelled on the command line
    cfg_at,       \* the directories that hold a regular file .sts.toml
    output_arg,   \* TRUE iff --output was given
    pc,           \* position of main
    doc,          \* the configuration document read by load_config
    cfg_path,     \* result of _find_config
    config,       \* the Config in force
    files,        \* result of collect_files
    inputs,       \* what audit_file read for each audited file
    file_reports, \* the FileReports built so far
    project,      \* the ProjectReport, or NoProject
    stdout,       \* what has been printed, in order
    out_file,     \* content of the --output path
    tree,         \* the *.py files below a directory target (relative parts)
    failed,       \* main's local `failed`
    exit_code,    \* process exit status, or Running
    err,          \* the uncaught exception that ended main, or "none"
    clock,        \* the day on which the invocation runs
    history,      \* the days of the commits that touch the audited files
    first_out,    \* the structured report of an earlier invocation, if any
    rt,           \* call_with_retry: its arguments, loop index, calls and waits
    ex,           \* run_experiment: plan, results list, results file, position
    au            \* what run_sts_audit returned, once it has

vars == << cwd, target, cfg_at, output_arg, pc, doc, cfg_path, config, files,
           inputs, file_reports, project, stdout, out_file, tree, failed,
           exit_code, err, clock, history, first_out, rt, ex, au >>

\* The state of the checker process, and the state of the experiment runner.
checker == << cwd, target, cfg_at, output_arg, pc, doc, cfg_path, config, files,
              inputs, file_reports, project, stdout, out_file, tree, failed,
              exit_code, err, clock, history, first_out >>

-----------------------------------------------------------------------------
(* Bounds of the model.                                                    *)

MaxFiles == 3       \* FileReports handed to aggregate
MaxLines == 2       \* physical lines of a file
MaxChanges == 25    \* non-blank lines the history query prints
MaxDay == 20        \* last day on which an invocation runs
MaxRetries == 4     \* greatest max_retries call_with_retry is called with
MaxReps == 2        \* repetitions of a (model, condition, task) in the plan
MaxInvocations == 2 \* invocations of run_experiment, the resumed ones included

-----------------------------------------------------------------------------
(* Strings.  A string is an atom; Chars gives its characters, so that      *)
(* Python's `p in line` is a real substring test.                          *)

CharSet == { "p", "r", "i", "n", "t", "(", ")", "x", "P", "o", "s", ".",
             "a", "h", "m", " ", "k", "e", "=", "1", "g", "v" }

Chars ==
    [c \in CharSet |-> << c >>] @@
    ( ""               :> << >> ) @@
    ( "print("         :> << "p","r","i","n","t","(" >> ) @@
    ( "import tkinter" :> << "i","m","p","o","r","t"," ","t","k","i","n","t","e","r" >> ) @@
    ( "from bookstore_ui" :>
        << "f","r","o","m"," ","b","o","o","k","s","t","o","r","e","_","u","i" >> ) @@
    ( "os.path"        :> << "o","s",".","p","a","t","h" >> ) @@
    ( "x = 1"          :> << "x"," ","="," ","1" >> ) @@
    ( "print(x)"       :> << "p","r","i","n","t","(","x",")" >> ) @@
    ( "Print(x)"       :> << "P","r","i","n","t","(","x",")" >> ) @@
    ( "import tkinter; print(x)" :>
        << "i","m","p","o","r","t"," ","t","k","i","n","t","e","r",";"," ",
           "p","r","i","n","t","(","x",")" >> ) @@
    ( "os.path.x"      :> << "o","s",".","p","a","t","h",".","x" >> ) @@
    ( "high"           :> << "h","i","g","h" >> ) @@
    ( "venv"           :> << "v","e","n","v" >> ) @@
    ( "a.py"           :> << "a",".","p","y" >> ) @@
    ( "b.py"           :> << "b",".","p","y" >> ) @@
    ( "c.py"           :> << "c",".","p","y" >> ) @@
    ( "m.py"           :> << "m",".","p","y" >> ) @@
    ( "nope"           :> << "n","o","p","e" >> ) @@
    ( "earlier"        :> << "e","a","r","l","i","e","r" >> ) @@
    ( "__init__.py"    :> << "_","_","i","n","i","t","_","_",".","p","y" >> )

\* ord(c) for the characters of the names the model sorts.
Ord ==
    ( "." :> 46 ) @@ ( "/" :> 47 ) @@ ( "_" :> 95 ) @@ ( "a" :> 97 ) @@ ( "b" :> 98 ) @@
    ( "c" :> 99 ) @@ ( "e" :> 101 ) @@ ( "i" :> 105 ) @@ ( "m" :> 109 ) @@
    ( "l" :> 108 ) @@ ( "n" :> 110 ) @@ ( "o" :> 111 ) @@ ( "p" :> 112 ) @@
    ( "r" :> 114 ) @@ ( "s" :> 115 ) @@
    ( "t" :> 116 ) @@ ( "v" :> 118 ) @@ ( "y" :> 121 )

RECURSIVE CharsLess(_, _)
CharsLess(a, b) ==
    IF b = << >> THEN FALSE
    ELSE IF a = << >> THEN TRUE
    ELSE IF Ord[a[1]] # Ord[b[1]] THEN Ord[a[1]] < Ord[b[1]]
    ELSE CharsLess(Tail(a), Tail(b))

\* Python a < b for str: by code point, a proper prefix first.
StrLess(a, b) == CharsLess(Chars[a], Chars[b])

\* Python `a in b` for str: a occurs in b as a contiguous, case-sensitive run.
StrIn(a, b) ==
    LET ca == Chars[a]
        cb == Chars[b]
    IN  \E i \in 0..(Len(cb) - Len(ca)) :
            \A j \in 1..Len(ca) : cb[i + j] = ca[j]

\* tuple(s) / frozenset(s) over a str: its characters as one-character strings.
StrItems(s) == [i \in 1..Len(Chars[s]) |-> Chars[s][i]]

Range(f) == { f[i] : i \in DOMAIN f }

-----------------------------------------------------------------------------
(* Numbers.  Python ints and floats are modelled as exact fractions n/d,   *)
(* d > 0; the values that occur are quotients of small integers, for which *)
(* IEEE division and the decimal literals round to the same doubles.       *)

Rat(n, d) == [n |-> n, d |-> d]
RLt(a, b) == a.n * b.d < b.n * a.d
RLe(a, b) == a.n * b.d <= b.n * a.d
RGt(a, b) == RLt(b, a)
REq(a, b) == a.n * b.d = b.n * a.d
RMin(a, b) == IF RLe(a, b) THEN a ELSE b
RMaxOf(a, b) == IF RLe(a, b) THEN b ELSE a

\* A fold that keeps the last element instead of the greatest.
RLastSeq(s, dflt) == IF s = << >> THEN dflt ELSE s[Len(s)]

RECURSIVE RMaxSeq(_, _)
\* max(seq, default=dflt) over fractions; Python keeps the first maximal one.
RMaxSeq(s, dflt) ==
    IF s = << >> THEN dflt
    ELSE IF Len(s) = 1 THEN s[1]
    ELSE LET m == RMaxSeq(SubSeq(s, 1, Len(s) - 1), dflt)
         IN  IF RGt(s[Len(s)], m) THEN s[Len(s)] ELSE m

RECURSIVE IMaxSeq(_, _)
\* max(seq, default=dflt) over ints.
IMaxSeq(s, dflt) ==
    IF s = << >> THEN dflt
    ELSE IF Len(s) = 1 THEN s[1]
    ELSE LET m == IMaxSeq(SubSeq(s, 1, Len(s) - 1), dflt)
         IN  IF s[Len(s)] > m THEN s[Len(s)] ELSE m

RECURSIVE ISum(_)
ISum(s) == IF s = << >> THEN 0 ELSE s[1] + ISum(Tail(s))

RECURSIVE RSum(_)
RSum(s) ==
    IF s = << >> THEN Rat(0, 1)
    ELSE LET r == RSum(Tail(s))
         IN  Rat(s[1].n * r.d + r.n * s[1].d, s[1].d * r.d)

-----------------------------------------------------------------------------
(* Values of a parsed TOML document.                                       *)

Num(n, d)  == [tag |-> "num",  n |-> n, d |-> d, s |-> "", l |-> << >>]
Str(s)     == [tag |-> "str",  n |-> 0, d |-> 1, s |-> s,  l |-> << >>]
List(l)    == [tag |-> "list", n |-> 0, d |-> 1, s |-> "", l |-> l]

Table(f)   == [tag |-> "table", f |-> f]
NotATable  == [tag |-> "num", f |-> << >>]

\* dict.get(key, default)
Get(dict, key, default) == IF key \in DOMAIN dict THEN dict[key] ELSE default


-----------------------------------------------------------------------------
(* Paths (pathlib.PurePosixPath): an anchor flag and the parts below it.   *)
(* The model's paths hold no ".." part and no symbolic link.               *)

Path(abs, parts) == [abs |-> abs, parts |-> parts]

\* Path.parent: the root and "." are their own parents.
Parent(p) ==
    IF p.parts = << >> THEN p
    ELSE Path(p.abs, SubSeq(p.parts, 1, Len(p.parts) - 1))

\* Path.parents: the logical ancestors, nearest first; purely lexical, so a
\* relative path's ancestors end at "." and an absolute path's at "/".
Parents(p) ==
    [k \in 1..Len(p.parts) |-> Path(p.abs, SubSeq(p.parts, 1, Len(p.parts) - k))]

\* directory / name
Join(p, name) == Path(p.abs, Append(p.parts, name))

RECURSIVE JoinChars(_)
\* "/".join(parts), as characters.
JoinChars(parts) ==
    IF parts = << >> THEN << >>
    ELSE IF Len(parts) = 1 THEN Chars[parts[1]]
    ELSE Chars[parts[1]] \o << "/" >> \o JoinChars(Tail(parts))

\* str(p), as characters: "." for the empty relative path.
PathStr(p) ==
    IF p.abs THEN << "/" >> \o JoinChars(p.parts)
    ELSE IF p.parts = << >> THEN << "." >>
    ELSE JoinChars(p.parts)

\* Where the operating system looks for p: relative paths start at wd.
Resolve(p, wd) == IF p.abs THEN p.parts ELSE wd \o p.parts

IsPrefix(a, b) == Len(a) <= Len(b) /\ SubSeq(b, 1, Len(a)) = a

\* The file system the model runs on: /, /p, /p/s are directories, /p/m.py
\* and /p/s/m.py are regular files, nothing else exists.
Dirs == { << >>, << "p" >>, << "p", "s" >> }
RegularFiles == { << "p", "m.py" >>, << "p", "s", "m.py" >> }
MissingLocs == { << "p", "nope" >> }

IsDirAt(p, wd)  == Resolve(p, wd) \in Dirs
IsFileAt(p, wd) == Resolve(p, wd) \in RegularFiles

\* Every spelling of location loc that a user in directory wd can type.
Spellings(loc, wd) ==
    { Path(TRUE, loc) } \cup
    ( IF IsPrefix(wd, loc)
        THEN { Path(FALSE, SubSeq(loc, Len(wd) + 1, Len(loc))) }
        ELSE { } )

-----------------------------------------------------------------------------
(* Configuration.                                                          *)

DefaultPatterns == << "import tkinter", "from bookstore_ui", "print(" >>
DefaultSkipDirs == { "__pycache__", ".venv", "venv", ".git" }

DEFAULT_CONFIG ==
    [ illegal_patterns     |-> DefaultPatterns,
      cc_threshold         |-> Num(20, 1),
      adf_threshold        |-> Num(1, 20),
      ccr_threshold        |-> Num(3, 10),
      project_cc_threshold |-> Num(10, 1),
      skip_dirs            |-> DefaultSkipDirs ]

None == << >>
Some(x) == << x >>

\* _find_config: the first directory of (current, *current.parents) that holds
\* a regular file .sts.toml, as Some(candidate), else None.
FindConfig(start, wd, holders) ==
    LET current == IF IsDirAt(start, wd) THEN start ELSE Parent(start)
        chain   == << current >> \o Parents(current)
        hits    == { i \in 1..Len(chain) : Resolve(chain[i], wd) \in holders }
    IN  IF hits = { } THEN None
        ELSE LET first == CHOOSE i \in hits : \A j \in hits : i <= j
             IN  Some(Join(chain[first], ".sts.toml"))

EmptyDict == << >>

Ok(v)     == [ok |-> TRUE,  val |-> v, exc |-> "none"]
Raise(e)  == [ok |-> FALSE, val |-> << >>, exc |-> e]

\* tuple(v): a list gives its items, a str its characters, a number raises.
ToTuple(v) ==
    CASE v.tag = "list" -> Ok(v.l)
      [] v.tag = "str"  -> Ok(StrItems(v.s))
      [] OTHER          -> Raise("TypeError")

\* frozenset(v): likewise, as a set.
ToFrozenSet(v) ==
    CASE v.tag = "list" -> Ok(Range(v.l))
      [] v.tag = "str"  -> Ok(Range(StrItems(v.s)))
      [] OTHER          -> Raise("TypeError")

\* load_config replacing whole sections: a field that is absent from a
\* section that is present falls back to the first field of that section.
MergeConfigBySection(d) ==
    IF d.parse = "error" THEN Raise("TOMLDecodeError")
    ELSE
    LET t == Get(d.raw, "thresholds", Table(EmptyDict))
        p == Get(d.raw, "patterns", Table(EmptyDict))
        s == Get(d.raw, "skip", Table(EmptyDict))
        whole == [ cc_threshold         |-> DEFAULT_CONFIG.cc_threshold,
                   adf_threshold        |-> DEFAULT_CONFIG.adf_threshold,
                   ccr_threshold        |-> DEFAULT_CONFIG.ccr_threshold,
                   project_cc_threshold |-> DEFAULT_CONFIG.project_cc_threshold ]
        zero  == [ cc_threshold         |-> Num(0, 1),
                   adf_threshold        |-> Num(0, 1),
                   ccr_threshold        |-> Num(0, 1),
                   project_cc_threshold |-> Num(0, 1) ]
        base  == IF "thresholds" \in DOMAIN d.raw THEN zero ELSE whole
    IN  IF p.tag # "table" \/ t.tag # "table" \/ s.tag # "table"
          THEN Raise("AttributeError")
        ELSE LET pats == ToTuple(Get(p.f, "illegal", List(DEFAULT_CONFIG.illegal_patterns)))
                 dirs == ToFrozenSet(Get(s.f, "dirs", List(<< >>)))
        IN  IF ~pats.ok THEN pats
        ELSE IF ~dirs.ok THEN dirs
        ELSE Ok([ illegal_patterns     |-> pats.val,
                  cc_threshold         |-> Get(t.f, "max_cc", base.cc_threshold),
                  adf_threshold        |-> Get(t.f, "adf", base.adf_threshold),
                  ccr_threshold        |-> Get(t.f, "ccr", base.ccr_threshold),
                  project_cc_threshold |-> Get(t.f, "project_max_cc",
                                               base.project_cc_threshold),
                  skip_dirs            |-> IF "dirs" \in DOMAIN s.f
                                             THEN dirs.val
                                             ELSE DEFAULT_CONFIG.skip_dirs ])

\* The body of load_config once a document was found: d is what tomllib
\* makes of the file (d.parse = "error": tomllib.load raises).
MergeConfig(d) ==
    IF d.parse = "error" THEN Raise("TOMLDecodeError")
    ELSE
    LET t == Get(d.raw, "thresholds", Table(EmptyDict))
        p == Get(d.raw, "patterns", Table(EmptyDict))
        s == Get(d.raw, "skip", Table(EmptyDict))
    IN  IF p.tag # "table" THEN Raise("AttributeError")
        ELSE LET pats == ToTuple(Get(p.f, "illegal", List(DEFAULT_CONFIG.illegal_patterns)))
        IN  IF ~pats.ok THEN pats
        ELSE IF t.tag # "table" THEN Raise("AttributeError")
        ELSE IF s.tag # "table" THEN Raise("AttributeError")
        ELSE LET dirs == IF "dirs" \in DOMAIN s.f
                           THEN ToFrozenSet(s.f["dirs"])
                           ELSE Ok(DEFAULT_CONFIG.skip_dirs)
        IN  IF ~dirs.ok THEN dirs
        ELSE Ok([ illegal_patterns     |-> pats.val,
                  cc_threshold         |-> Get(t.f, "max_cc", DEFAULT_CONFIG.cc_threshold),
                  adf_threshold        |-> Get(t.f, "adf", DEFAULT_CONFIG.adf_threshold),
                  ccr_threshold        |-> Get(t.f, "ccr", DEFAULT_CONFIG.ccr_threshold),
                  project_cc_threshold |-> Get(t.f, "project_max_cc",
                                               DEFAULT_CONFIG.project_cc_threshold),
                  skip_dirs            |-> dirs.val ])

\* load_config: defaults when no document is found, else the merge.
LoadConfigResult(found, d) ==
    IF found = None THEN Ok(DEFAULT_CONFIG) ELSE MergeConfig(d)


-----------------------------------------------------------------------------
(* The per-file audit.                                                     *)

FAILED == "H-TIER (FAILED)"
PASSED == "Z-TIER (PASSED)"

\* What audit_file meets when it reads one file: whether read_text succeeds,
\* whether radon can parse the text, its physical lines (content.splitlines())
\* and the complexity of each block cc_visit returns.
FileInput(readable, parses, lines, blocks) ==
    [readable |-> readable, parses |-> parses, lines |-> lines, blocks |-> blocks]

\* What subprocess.run(["git", "log", ...], timeout=5) does:
\*   "exit"    git ran to its end and printed n non-blank lines;
\*   "norepo"  git failed (no repository): it printed nothing to stdout, and
\*             its return code is not looked at;
\*   "timeout" subprocess.TimeoutExpired;
\*   "missing" FileNotFoundError (no git executable);
\*   "oserror" another OSError of the spawn (PermissionError: git not executable).
Query(kind, n) == [kind |-> kind, n |-> n]

\* --since=14 days ago
Window == 14

\* What git log --since="14 days ago" --name-only -- path prints on day
\* today: one non-blank line for each commit touching the path that is less
\* than Window days old.
GitLog(commits, today) ==
    Query("exit", Cardinality({ c \in commits : today - c < Window }))

\* _compute_ccr without min(): the score is not capped.
ComputeCcrUncapped(q) ==
    CASE q.kind \in {"exit", "norepo"}    -> Ok(Rat(q.n, 10))
      [] q.kind \in {"timeout", "missing"} -> Ok(Rat(0, 1))
      [] OTHER                            -> Raise("PermissionError")

\* _compute_ccr without the timeout handler: the expiry propagates.
ComputeCcrTimeoutRaises(q) ==
    CASE q.kind \in {"exit", "norepo"} -> Ok(RMin(Rat(q.n, 10), Rat(1, 1)))
      [] q.kind = "missing"            -> Ok(Rat(0, 1))
      [] q.kind = "timeout"            -> Raise("TimeoutExpired")
      [] OTHER                         -> Raise("PermissionError")

\* _compute_ccr
ComputeCcr(q) ==
    CASE q.kind \in {"exit", "norepo"}    -> Ok(RMin(Rat(q.n, 10), Rat(1, 1)))
      [] q.kind \in {"timeout", "missing"} -> Ok(Rat(0, 1))
      [] OTHER                            -> Raise("PermissionError")

\* any(p in line for p in config.illegal_patterns)
LineDrifts(line, patterns) ==
    \E j \in 1..Len(patterns) : StrIn(patterns[j], line)

\* drift_lines counting every (line, pattern) hit instead of every line.
DriftHits(lines, patterns) ==
    Cardinality({ h \in (1..Len(lines)) \X (1..Len(patterns)) :
                    StrIn(patterns[h[2]], lines[h[1]]) })

\* drift_lines: the number of lines that hold at least one illegal pattern.
DriftLines(lines, patterns) ==
    Cardinality({ i \in 1..Len(lines) : LineDrifts(lines[i], patterns) })

\* ADF
ComputeAdf(lines, patterns) ==
    IF Len(lines) = 0 THEN Rat(0, 1)
    ELSE Rat(DriftLines(lines, patterns), Len(lines))

Indices(n) == [i \in 1..n |-> i]

TlHit(line) == StrIn("os.path", line)

\* _detect_tl numbering the lines from 0.
DetectTlZeroBased(path, lines) ==
    LET hits == SelectSeq(Indices(Len(lines)), LAMBDA i : TlHit(lines[i]))
    IN  [k \in 1..Len(hits) |-> [path |-> path, line |-> hits[k] - 1]]

\* _detect_tl: "path:lineno" for each line that holds os.path, in line order.
DetectTl(path, lines) ==
    LET hits == SelectSeq(Indices(Len(lines)), LAMBDA i : TlHit(lines[i]))
    IN  [k \in 1..Len(hits) |-> [path |-> path, line |-> hits[k]]]

\* a > b where b comes from the configuration: Python raises TypeError when b
\* is no number.
PyGt(a, b) == IF b.tag # "num" THEN Raise("TypeError") ELSE Ok(RGt(a, Rat(b.n, b.d)))
PyLt(a, b) == IF b.tag # "num" THEN Raise("TypeError") ELSE Ok(RLt(a, Rat(b.n, b.d)))
PyLe(a, b) == IF b.tag # "num" THEN Raise("TypeError") ELSE Ok(RLe(a, Rat(b.n, b.d)))

\* is_failed with >= for >: a value equal to its ceiling fails.
IsFailedNonStrict(max_cc, adf, ccr, cfg) ==
    Ok(\/ RLe(Rat(cfg.cc_threshold.n, cfg.cc_threshold.d), Rat(max_cc, 1))
       \/ RLe(Rat(cfg.adf_threshold.n, cfg.adf_threshold.d), adf)
       \/ RLe(Rat(cfg.ccr_threshold.n, cfg.ccr_threshold.d), ccr))

\* is_failed of audit_file: `or` evaluates left to right and stops at the
\* first true operand.
IsFailed(max_cc, adf, ccr, cfg) ==
    LET c1 == PyGt(Rat(max_cc, 1), cfg.cc_threshold)
        c2 == PyGt(adf, cfg.adf_threshold)
        c3 == PyGt(ccr, cfg.ccr_threshold)
    IN  IF ~c1.ok \/ c1.val THEN c1
        ELSE IF ~c2.ok \/ c2.val THEN c2
        ELSE c3

\* audit_file: Ok(FileReport), or the exception that leaves it.
AuditFile(path, inp, q, cfg) ==
    IF ~inp.readable THEN Raise("OSError")
    ELSE IF ~inp.parses THEN Raise("SyntaxError")
    ELSE
    LET max_cc == IMaxSeq(inp.blocks, 0)
        ccr    == ComputeCcr(q)
        adf    == ComputeAdf(inp.lines, cfg.illegal_patterns)
        tli    == DetectTl(path, inp.lines)
    IN  IF ~ccr.ok THEN ccr
        ELSE LET is_failed == IsFailed(max_cc, adf, ccr.val, cfg)
        IN  IF ~is_failed.ok THEN is_failed
            ELSE Ok([ path         |-> path,
                      max_cc       |-> max_cc,
                      ccr          |-> ccr.val,
                      adf          |-> adf,
                      tl           |-> IF tli # << >> THEN "HIGH" ELSE "LOW",
                      tl_instances |-> tli,
                      verdict      |-> IF is_failed.val THEN FAILED ELSE PASSED ])

-----------------------------------------------------------------------------
(* Aggregation.                                                            *)

RECURSIVE Flatten(_)
Flatten(ss) == IF ss = << >> THEN << >> ELSE ss[1] \o Flatten(Tail(ss))

\* is_z with the per-file CC ceiling in place of the project ceiling.
IsZFileCeiling(max_cc, max_adf, global_tl, max_ccr, cfg) ==
    Ok(/\ RLt(Rat(max_cc, 1), Rat(cfg.cc_threshold.n, cfg.cc_threshold.d))
       /\ RLt(max_adf, Rat(cfg.adf_threshold.n, cfg.adf_threshold.d))
       /\ global_tl = "LOW"
       /\ RLe(max_ccr, Rat(cfg.ccr_threshold.n, cfg.ccr_threshold.d)))

\* is_z with <= for the CC test: a maximum equal to the project ceiling
\* passes.
IsZLenient(max_cc, max_adf, global_tl, max_ccr, cfg) ==
    Ok(/\ RLe(Rat(max_cc, 1), Rat(cfg.project_cc_threshold.n, cfg.project_cc_threshold.d))
       /\ RLt(max_adf, Rat(cfg.adf_threshold.n, cfg.adf_threshold.d))
       /\ global_tl = "LOW"
       /\ RLe(max_ccr, Rat(cfg.ccr_threshold.n, cfg.ccr_threshold.d)))

\* is_z of aggregate: `and` evaluates left to right and stops at the first
\* false operand.
IsZ(max_cc, max_adf, global_tl, max_ccr, cfg) ==
    LET c1 == PyLt(Rat(max_cc, 1), cfg.project_cc_threshold)
        c2 == PyLt(max_adf, cfg.adf_threshold)
        c4 == PyLe(max_ccr, cfg.ccr_threshold)
    IN  IF ~c1.ok \/ ~c1.val THEN c1
        ELSE IF ~c2.ok \/ ~c2.val THEN c2
        ELSE IF global_tl # "LOW" THEN Ok(FALSE)
        ELSE c4

\* polluted listing the files that failed their own verdict.
PollutedFailedOnly(reports) ==
    LET dirty == SelectSeq(reports, LAMBDA r : r.verdict = FAILED)
    IN  [i \in 1..Len(dirty) |-> dirty[i].path]

\* polluted = tuple(r.path for r in reports if r.adf > 0.0)
PollutedFiles(reports) ==
    LET dirty == SelectSeq(reports, LAMBDA r : RGt(r.adf, Rat(0, 1)))
    IN  [i \in 1..Len(dirty) |-> dirty[i].path]

\* aggregate: Ok(ProjectReport), or the exception that leaves it.
Aggregate(reports, cfg) ==
    LET all_cc    == [i \in 1..Len(reports) |-> reports[i].max_cc]
        all_ccr   == [i \in 1..Len(reports) |-> reports[i].ccr]
        polluted  == PollutedFiles(reports)
        all_tl    == Flatten([i \in 1..Len(reports) |-> reports[i].tl_instances])
        max_adf   == RMaxSeq([i \in 1..Len(reports) |-> reports[i].adf], Rat(0, 1))
        global_tl == IF all_tl # << >> THEN "HIGH" ELSE "LOW"
        max_cc    == IMaxSeq(all_cc, 0)
        mean_cc   == IF all_cc # << >> THEN Rat(ISum(all_cc), Len(all_cc)) ELSE Rat(0, 1)
        mean_ccr  == IF all_ccr # << >>
                       THEN LET t == RSum(all_ccr) IN Rat(t.n, t.d * Len(all_ccr))
                       ELSE Rat(0, 1)
        max_ccr   == RMaxSeq(all_ccr, Rat(0, 1))
        is_z      == IsZ(max_cc, max_adf, global_tl, max_ccr, cfg)
    IN  IF ~is_z.ok THEN is_z
        ELSE Ok([ total_files    |-> Len(reports),
                  max_cc         |-> max_cc,
                  mean_cc        |-> mean_cc,
                  max_adf        |-> max_adf,
                  polluted_files |-> polluted,
                  mean_ccr       |-> mean_ccr,
                  max_ccr        |-> max_ccr,
                  global_tl      |-> global_tl,
                  tl_instances   |-> all_tl,
                  verdict        |-> IF is_z.val THEN PASSED ELSE FAILED ])


-----------------------------------------------------------------------------
(* File collection.                                                        *)

\* Path.parts: an absolute path's parts start with the root.
PartsOf(p) == (IF p.abs THEN << "/" >> ELSE << >>) \o p.parts

RECURSIVE PartsLess(_, _)
\* Path.__lt__: the parts compared as a list of str.
PartsLess(a, b) ==
    IF b = << >> THEN FALSE
    ELSE IF a = << >> THEN TRUE
    ELSE IF a[1] # b[1] THEN StrLess(a[1], b[1])
    ELSE PartsLess(Tail(a), Tail(b))

RECURSIVE SortedPaths(_)
\* sorted(...) of a set of paths below one directory.
SortedPaths(S) ==
    IF S = { } THEN << >>
    ELSE LET least == CHOOSE p \in S :
                          \A q \in S \ { p } : PartsLess(p.parts, q.parts)
         IN  << least >> \o SortedPaths(S \ { least })

\* The *.py files that can exist below a directory target: a module next to
\* a package of the same stem, a file of a skipped directory, a package
\* marker.
TreeFiles == { << "a.py" >>, << "a", "m.py" >>, << "venv", "c.py" >>, << "__init__.py" >> }

\* collect_files: found is what directory.rglob("*.py") yields, relative to
\* directory.
CollectFiles(directory, cfg, found) ==
    LET paths == { Path(directory.abs, directory.parts \o rel) : rel \in found }
        kept  == { p \in paths :
                     /\ ~ \E i \in 1..Len(PartsOf(p)) : PartsOf(p)[i] \in cfg.skip_dirs
                     /\ p.parts[Len(p.parts)] # "__init__.py" }
    IN  SortedPaths(kept)

-----------------------------------------------------------------------------
(* The structured report.                                                  *)

\* round(x, digits) with scale = 10 ** digits, for x >= 0.  No value of the
\* model lies half-way between two neighbours, where Python rounds the
\* double to even.
Round(x, scale) == Rat((2 * x.n * scale + x.d) \div (2 * x.d), scale)

\* One entry of data["files"].  (The radon scores mi_score, h_difficulty and
\* h_effort are functions of the content alone and are left out.)
JsonFile(r) ==
    [ path         |-> PathStr(r.path),
      max_cc       |-> r.max_cc,
      ccr          |-> Round(r.ccr, 10000),
      adf          |-> Round(r.adf, 10000),
      tl           |-> r.tl,
      tl_instances |-> r.tl_instances,
      verdict      |-> r.verdict ]

\* data["project"]
JsonProject(p) ==
    [ total_files    |-> p.total_files,
      max_cc         |-> p.max_cc,
      mean_cc        |-> Round(p.mean_cc, 100),
      max_adf        |-> Round(p.max_adf, 10000),
      polluted_files |-> [i \in 1..Len(p.polluted_files) |-> PathStr(p.polluted_files[i])],
      mean_ccr       |-> Round(p.mean_ccr, 10000),
      max_ccr        |-> Round(p.max_ccr, 10000),
      global_tl      |-> p.global_tl,
      tl_instances   |-> p.tl_instances,
      verdict        |-> p.verdict ]

\* build_json that never adds the project object.
BuildJsonNoProject(tgt, reports, proj) ==
    [ version |-> "2.2",
      target  |-> PathStr(tgt),
      project |-> None,
      files   |-> [i \in 1..Len(reports) |-> JsonFile(reports[i])] ]

\* build_json: the payload; a project object only when project is given.
BuildJson(tgt, reports, proj) ==
    [ version |-> "2.2",
      target  |-> PathStr(tgt),
      project |-> IF proj = None THEN None ELSE Some(JsonProject(proj[1])),
      files   |-> [i \in 1..Len(reports) |-> JsonFile(reports[i])] ]

\* The --output path: no file, a report left by an earlier run, a file cut
\* short, or the report of this run.
Stored(kind, data) == [kind |-> kind, data |-> data]
NoData    == BuildJson(Path(FALSE, << >>), << >>, None)
Absent    == Stored("absent", NoData)
OldReport == Stored("old", BuildJson(Path(TRUE, << "earlier" >>), << >>, None))
Partial   == Stored("partial", NoData)

-----------------------------------------------------------------------------
(* The experiment runner at rest.                                          *)

\* call_with_retry has not been called.
NoRetry ==
    [ base_wait |-> 0, max_retries |-> 0, attempt |-> 0, calls |-> 0,
      waits |-> << >>, errors |-> << >>, st |-> "idle" ]

\* run_experiment has not been called.
NoExperiment ==
    [ plan |-> << >>, results |-> << >>, loaded |-> << >>, remaining |-> << >>,
      executed |-> << >>,
      file |-> [kind |-> "absent", list |-> << >>],
      tmp |-> [kind |-> "absent", list |-> << >>],
      saved |-> << >>, runs |-> 0, crashes |-> 0, invocations |-> 0, st |-> "idle" ]

\* run_sts_audit has not returned.
NotRun == [ tag |-> "none", data |-> NoData, error |-> "" ]

-----------------------------------------------------------------------------
(* main.                                                                   *)

Running == -1

\* One block of terminal output: what it is, and the file names it shows.
Line(kind, rows) == [kind |-> kind, rows |-> rows]
NoDoc == [parse |-> "none", raw |-> EmptyDict]

\* An uncaught exception: traceback, exit status 1.
Crash(exc) ==
    /\ pc' = "exit"
    /\ exit_code' = 1
    /\ err' = exc

\* sys.exit(1) after a message.
Fatal(msg) ==
    /\ stdout' = Append(stdout, Line(msg, << >>))
    /\ pc' = "exit"
    /\ exit_code' = 1
    /\ err' = "SystemExit"

\* config = load_config(target); docs are the documents the file may hold.
LoadConfig(docs) ==
    /\ pc = "start"
    /\ LET found == FindConfig(target, cwd, cfg_at)
       IN  \E d \in (IF found = None THEN { NoDoc } ELSE docs) :
             LET res == LoadConfigResult(found, d)
             IN  /\ cfg_path' = found
                 /\ doc' = d
                 /\ IF res.ok
                      THEN /\ config' = res.val
                           /\ pc' = "loaded"
                           /\ UNCHANGED << exit_code, err >>
                      ELSE /\ Crash(res.exc)
                           /\ UNCHANGED config
    /\ UNCHANGED << rt, ex, au, clock, history, first_out,
                    cwd, target, cfg_at, output_arg, files, inputs, file_reports,
                    project, stdout, out_file, tree, failed >>

\* Single-file mode: report = audit_file(target, config); cases are the
\* files and history answers the call may meet.
AuditSingle(cases) ==
    /\ pc = "loaded"
    /\ IsFileAt(target, cwd)
    /\ \E c \in cases :
         LET res == AuditFile(target, c.inp, c.q, config)
         IN  /\ inputs' = << c >>
             /\ IF res.ok
                  THEN /\ file_reports' = << res.val >>
                       /\ pc' = "print_file"
                       /\ UNCHANGED << exit_code, err >>
                  ELSE /\ Crash(res.exc)
                       /\ UNCHANGED file_reports
    /\ UNCHANGED << rt, ex, au, clock, history, first_out,
                    cwd, target, cfg_at, output_arg, doc, cfg_path, config, files,
                    project, stdout, out_file, tree, failed >>

\* main with the exit on FAIL placed before the write: a failed file leaves
\* no structured report.
PrintFileReportExitsFirst ==
    /\ pc = "print_file"
    /\ IF config.ccr_threshold.tag # "num"
         THEN /\ Crash("ValueError")
              /\ UNCHANGED << stdout, failed >>
         ELSE /\ stdout' = Append(stdout,
                              Line("file_report", << PathStr(file_reports[1].path) >>))
              /\ failed' = (file_reports[1].verdict = FAILED)
              /\ pc' = IF output_arg /\ file_reports[1].verdict # FAILED
                         THEN "write" ELSE "finish"
              /\ UNCHANGED << exit_code, err >>
    /\ UNCHANGED << rt, ex, au, clock, history, first_out,
                    cwd, target, cfg_at, output_arg, doc, cfg_path, config, files,
                    inputs, file_reports, project, out_file, tree >>

\* print_file_report(report, config); failed = "FAILED" in report.verdict.
\* The churn limit is formatted with {:.0%}, which raises for a str.
PrintFileReport ==
    /\ pc = "print_file"
    /\ IF config.ccr_threshold.tag # "num"
         THEN /\ Crash("ValueError")
              /\ UNCHANGED << stdout, failed >>
         ELSE /\ stdout' = Append(stdout,
                              Line("file_report", << PathStr(file_reports[1].path) >>))
              /\ failed' = (file_reports[1].verdict = FAILED)
              /\ pc' = IF output_arg THEN "write" ELSE "finish"
              /\ UNCHANGED << exit_code, err >>
    /\ UNCHANGED << rt, ex, au, clock, history, first_out,
                    cwd, target, cfg_at, output_arg, doc, cfg_path, config, files,
                    inputs, file_reports, project, out_file, tree >>

\* collect_files without the `if not files` exit: an empty list is audited
\* and aggregated like any other.
CollectStepUngated(trees) ==
    /\ pc = "loaded"
    /\ ~IsFileAt(target, cwd)
    /\ IsDirAt(target, cwd)
    /\ \E found \in trees :
         /\ tree' = found
         /\ files' = CollectFiles(target, config, found)
         /\ pc' = "audit"
    /\ UNCHANGED << rt, ex, au, clock, history, first_out,
                    cwd, target, cfg_at, output_arg, doc, cfg_path, config,
                    inputs, file_reports, project, out_file, failed,
                    stdout, exit_code, err >>

\* Directory mode: files = collect_files(target, config); no file is fatal.
\* trees are the sets of *.py files the directory may hold.
CollectStep(trees) ==
    /\ pc = "loaded"
    /\ ~IsFileAt(target, cwd)
    /\ IsDirAt(target, cwd)
    /\ \E found \in trees :
         LET got == CollectFiles(target, config, found)
         IN  /\ tree' = found
             /\ files' = got
             /\ IF got = << >>
                  THEN Fatal("no_py_files")
                  ELSE /\ pc' = "audit"
                       /\ UNCHANGED << stdout, exit_code, err >>
    /\ UNCHANGED << rt, ex, au, clock, history, first_out,
                    cwd, target, cfg_at, output_arg, doc, cfg_path, config,
                    inputs, file_reports, project, out_file, failed >>

\* One turn of [audit_file(f, config) for f in files].
AuditNext(cases) ==
    /\ pc = "audit"
    /\ Len(file_reports) < Len(files)
    /\ \E c \in cases :
         LET res == AuditFile(files[Len(file_reports) + 1], c.inp, c.q, config)
         IN  /\ inputs' = Append(inputs, c)
             /\ IF res.ok
                  THEN /\ file_reports' = Append(file_reports, res.val)
                       /\ UNCHANGED << pc, exit_code, err >>
                  ELSE /\ Crash(res.exc)
                       /\ UNCHANGED file_reports
    /\ UNCHANGED << rt, ex, au, clock, history, first_out,
                    cwd, target, cfg_at, output_arg, doc, cfg_path, config, files,
                    project, stdout, out_file, tree, failed >>

\* project = aggregate(file_reports, config)
AggregateStep ==
    /\ pc = "audit"
    /\ Len(file_reports) = Len(files)
    /\ LET res == Aggregate(file_reports, config)
       IN  IF res.ok
             THEN /\ project' = Some(res.val)
                  /\ pc' = "print_project"
                  /\ UNCHANGED << exit_code, err >>
             ELSE /\ Crash(res.exc)
                  /\ UNCHANGED project
    /\ UNCHANGED << rt, ex, au, clock, history, first_out,
                    cwd, target, cfg_at, output_arg, doc, cfg_path, config, files,
                    inputs, file_reports, stdout, out_file, tree, failed >>

\* print_project_report(...); failed = "FAILED" in project.verdict.  The
\* "Z-TIER requires" line of a failed project formats the churn limit with
\* {:.0%}.
PrintProjectReport ==
    /\ pc = "print_project"
    /\ IF project[1].verdict = FAILED /\ config.ccr_threshold.tag # "num"
         THEN /\ Crash("ValueError")
              /\ UNCHANGED << stdout, failed >>
         ELSE /\ stdout' = Append(stdout,
                              Line("project_report",
                                   [i \in 1..Len(file_reports) |->
                                       PathStr(file_reports[i].path)]))
              /\ failed' = (project[1].verdict = FAILED)
              /\ pc' = IF output_arg THEN "write" ELSE "finish"
              /\ UNCHANGED << exit_code, err >>
    /\ UNCHANGED << rt, ex, au, clock, history, first_out,
                    cwd, target, cfg_at, output_arg, doc, cfg_path, config, files,
                    inputs, file_reports, project, out_file, tree >>

\* write_json(args.output, build_json(...)) and the "JSON written" line.
\* Path.write_text opens the file for writing, which truncates it, and then
\* writes: a failure leaves the old content, or a truncated file.
WriteJson ==
    /\ pc = "write"
    /\ \/ /\ out_file' = Stored("report", BuildJson(target, file_reports, project))
          /\ stdout' = Append(stdout, Line("json_written", << >>))
          /\ pc' = "finish"
          /\ UNCHANGED << exit_code, err >>
       \/ /\ out_file' \in { out_file, Partial }
          /\ Crash("OSError")
          /\ UNCHANGED stdout
    /\ UNCHANGED << rt, ex, au, clock, history, first_out,
                    cwd, target, cfg_at, output_arg, doc, cfg_path, config, files,
                    inputs, file_reports, project, tree, failed >>

\* The target is neither a file nor a directory.
TargetError ==
    /\ pc = "loaded"
    /\ ~IsFileAt(target, cwd)
    /\ ~IsDirAt(target, cwd)
    /\ Fatal("not_file_or_dir")
    /\ UNCHANGED << rt, ex, au, clock, history, first_out,
                    cwd, target, cfg_at, output_arg, doc, cfg_path, config, files,
                    inputs, file_reports, project, out_file, tree, failed >>

\* Finish without the `if failed` gate: main always returns normally.
FinishUngated ==
    /\ pc = "finish"
    /\ pc' = "exit"
    /\ exit_code' = 0
    /\ err' = "none"
    /\ UNCHANGED << rt, ex, au, clock, history, first_out,
                    cwd, target, cfg_at, output_arg, doc, cfg_path, config, files,
                    inputs, file_reports, project, stdout, out_file, tree, failed >>

\* if failed: sys.exit(1); otherwise main returns and the status is 0.
Finish ==
    /\ pc = "finish"
    /\ pc' = "exit"
    /\ exit_code' = IF failed THEN 1 ELSE 0
    /\ err' = IF failed THEN "SystemExit" ELSE "none"
    /\ UNCHANGED << rt, ex, au, clock, history, first_out,
                    cwd, target, cfg_at, output_arg, doc, cfg_path, config, files,
                    inputs, file_reports, project, stdout, out_file, tree, failed >>

\* The program is invoked again, on the same target, on the same day or
\* later: a new process, which finds the output path as the first run left
\* it.
Rerun ==
    /\ pc = "exit"
    /\ first_out = None
    /\ out_file.kind = "report"
    /\ first_out' = Some(out_file.data)
    /\ \E later \in clock..MaxDay : clock' = later
    /\ pc' = "start"
    /\ doc' = NoDoc
    /\ cfg_path' = None
    /\ config' = None
    /\ files' = << >>
    /\ inputs' = << >>
    /\ file_reports' = << >>
    /\ project' = None
    /\ stdout' = << >>
    /\ failed' = FALSE
    /\ exit_code' = Running
    /\ err' = "none"
    /\ UNCHANGED << rt, ex, au, history, cwd, target, cfg_at, output_arg, out_file, tree >>


-----------------------------------------------------------------------------
(* The runs of main that the model explores.                               *)

DocOf(raw) == [parse |-> "ok", raw |-> raw]
Unparseable == [parse |-> "error", raw |-> EmptyDict]

\* The configuration documents main is run with: an empty one, well-formed
\* overrides, and malformed ones.
MainDocs ==
    { DocOf(EmptyDict),
      DocOf("thresholds" :> Table(("max_cc" :> Num(2, 1)) @@ ("ccr" :> Num(1, 1)))),
      Unparseable,
      DocOf("thresholds" :> NotATable),
      DocOf("thresholds" :> Table("max_cc" :> Str("high"))),
      DocOf("thresholds" :> Table("ccr" :> Str("high"))),
      DocOf("patterns" :> Table("illegal" :> Str("print("))),
      DocOf("patterns" :> Table("illegal" :> Num(5, 1))) }

\* The files main is run on.
MainInputs ==
    { FileInput(TRUE, TRUE, << "x = 1" >>, << 1 >>),
      FileInput(TRUE, TRUE, << "print(x)", "x = 1" >>, << 3 >>),
      FileInput(TRUE, TRUE, << "x = 1", "os.path.x" >>, << 3, 11 >>),
      FileInput(TRUE, TRUE, << "x = 1" >>, << 21 >>),
      FileInput(FALSE, TRUE, << >>, << >>),
      FileInput(TRUE, FALSE, << "x = 1" >>, << >>) }

\* The history queries main meets.
MainQueries ==
    { Query("exit", 0), Query("exit", 4), Query("timeout", 0), Query("oserror", 0) }

Case(inp, q) == [inp |-> inp, q |-> q]

MainCases == { Case(i, q) : i \in MainInputs, q \in MainQueries }

MainTargets ==
    { Path(FALSE, << "m.py" >>), Path(TRUE, << "p", "s", "m.py" >>),
      Path(FALSE, << "s" >>), Path(TRUE, << "p" >>), Path(FALSE, << "nope" >>) }

\* The sets of *.py files a directory target may hold.
Trees == SUBSET TreeFiles

Init ==
    /\ cwd = << "p" >>
    /\ target \in MainTargets
    /\ cfg_at \in { { }, { << "p" >> } }
    /\ output_arg \in BOOLEAN
    /\ out_file \in (IF output_arg THEN { Absent, OldReport } ELSE { Absent })
    /\ pc = "start"
    /\ doc = NoDoc
    /\ cfg_path = None
    /\ config = None
    /\ files = << >>
    /\ inputs = << >>
    /\ file_reports = << >>
    /\ project = None
    /\ stdout = << >>
    /\ tree = { }
    /\ failed = FALSE
    /\ exit_code = Running
    /\ err = "none"
    /\ clock = 0
    /\ history = { }
    /\ first_out = None
    /\ rt = NoRetry
    /\ ex = NoExperiment
    /\ au = NotRun

Next ==
    \/ LoadConfig(MainDocs)
    \/ AuditSingle(MainCases)
    \/ PrintFileReport
    \/ CollectStep(Trees)
    \/ AuditNext(MainCases)
    \/ AggregateStep
    \/ PrintProjectReport
    \/ WriteJson
    \/ TargetError
    \/ Finish

Spec == Init /\ [][Next]_vars


-----------------------------------------------------------------------------
(* Properties of main (checked under Spec).                                *)

SingleMode == IsFileAt(target, cwd)

\* The overall verdict, once there is one: the file verdict of a single-file
\* target, the project verdict of a directory target.
HasVerdict(v) ==
    \/ SingleMode /\ file_reports # << >> /\ file_reports[1].verdict = v
    \/ project # None /\ project[1].verdict = v

Printed(item) == \E i \in 1..Len(stdout) : stdout[i].kind = item

\* main ran to its end: the report was printed and, with --output, written.
RanToEnd ==
    /\ Printed("file_report") \/ Printed("project_report")
    /\ output_arg => out_file.kind = "report"

\* C4, as stated: once main has ended, the exit status is non-zero when the
\* overall verdict is FAIL and zero in every other case.
C4_ExitNonZeroIffFail ==
    pc = "exit" => (exit_code # 0 <=> HasVerdict(FAILED))

\* C4, amended: once main has ended, the exit status is non-zero whenever the
\* overall verdict is FAIL, and it is zero exactly when main ran to its end
\* with overall verdict PASS (an invocation that ends in a fatal error or an
\* uncaught exception exits non-zero whatever was computed before).
C4_ExitStatus ==
    pc = "exit" =>
        /\ HasVerdict(FAILED) => exit_code # 0
        /\ exit_code = 0 <=> (HasVerdict(PASSED) /\ RanToEnd)

\* A failed directory scan that wrote its report and exited with status 1.
C4_Witness ==
    /\ pc = "exit"
    /\ exit_code = 1
    /\ project # None
    /\ project[1].verdict = FAILED
    /\ out_file.kind = "report"


\* The shape the schema gives each known field of a section.
FieldShape ==
    [ thresholds |-> ("max_cc" :> "num") @@ ("adf" :> "num") @@ ("ccr" :> "num") @@
                     ("project_max_cc" :> "num"),
      patterns   |-> ("illegal" :> "list"),
      skip       |-> ("dirs" :> "list") ]

\* A document is malformed when it cannot be parsed, when a known section is
\* no table, or when a known field has the wrong shape.
Malformed(d) ==
    \/ d.parse = "error"
    \/ /\ d.parse = "ok"
       /\ \E sec \in DOMAIN d.raw \cap DOMAIN FieldShape :
            \/ d.raw[sec].tag # "table"
            \/ \E k \in DOMAIN d.raw[sec].f \cap DOMAIN FieldShape[sec] :
                 d.raw[sec].f[k].tag # FieldShape[sec][k]

\* C10: when the discovered configuration document is malformed, no file is
\* ever read or analyzed, no report is printed, the output path is left
\* alone, and the invocation ends with a non-zero exit status.
C10_MalformedFailsFast ==
    (cfg_path # None /\ Malformed(doc)) =>
        /\ inputs = << >>
        /\ ~Printed("file_report") /\ ~Printed("project_report")
        /\ out_file \in { Absent, OldReport }
        /\ pc = "exit" => exit_code # 0

DirMode == ~IsFileAt(target, cwd) /\ IsDirAt(target, cwd)

\* C11: in directory mode a collected file that cannot be read or decoded
\* gets no FileReport, and the scan goes on: when nothing else goes wrong,
\* every collected file is visited, and the project report is aggregated and
\* printed before main ends.
C11_UnreadableFileContinues ==
    ( /\ DirMode
      /\ ~Malformed(doc)
      /\ \E i \in DOMAIN inputs : ~inputs[i].inp.readable
      /\ \A i \in DOMAIN inputs : inputs[i].inp.parses /\ inputs[i].q.kind # "oserror" ) =>
        /\ Len(file_reports) <= Cardinality({ i \in DOMAIN inputs : inputs[i].inp.readable })
        /\ pc = "exit" =>
              /\ Len(inputs) = Len(files)
              /\ project # None
              /\ Printed("project_report")

\* The target is neither a file nor a directory.
NoTarget == ~IsFileAt(target, cwd) /\ ~IsDirAt(target, cwd)

\* collect_files ran on a directory target and gave no file.
NothingCollected == DirMode /\ config # None /\ pc # "loaded" /\ files = << >>

\* An uncaught exception ended main: the interpreter prints its traceback.
Traceback == err \notin { "none", "SystemExit" }

\* C12: when the target is neither a file nor a directory, or is a directory
\* in which no file is collected, no file is audited, aggregate is not
\* called, no file or project report is printed and the output path is left
\* as it was, --output given or not; main ends with a non-zero status after
\* its message (for a target that is neither, after the traceback of
\* load_config when the configuration could not be loaded).
C12_TargetErrorsAreFatal ==
    /\ (NoTarget \/ NothingCollected) =>
          /\ inputs = << >> /\ file_reports = << >>
          /\ project = None
          /\ ~Printed("file_report") /\ ~Printed("project_report")
          /\ ~Printed("json_written")
          /\ out_file \in { Absent, OldReport }
          /\ pc = "exit" => exit_code # 0
    /\ (NoTarget /\ pc = "exit") => (Printed("not_file_or_dir") \/ Traceback)
    /\ NothingCollected => (pc = "exit" /\ Printed("no_py_files"))

\* A directory that holds only a file of a skipped directory and a package
\* marker, with --output naming an earlier report: the message, status 1, and
\* the earlier report still in place.
C12_Witness ==
    /\ pc = "exit"
    /\ exit_code = 1
    /\ DirMode
    /\ output_arg
    /\ tree = { << "venv", "c.py" >>, << "__init__.py" >> }
    /\ files = << >>
    /\ Printed("no_py_files")
    /\ out_file = OldReport

\* The file names of the entries of a structured report, in order.
Listed(data) == [i \in 1..Len(data.files) |-> data.files[i].path]

\* C13: for a directory target the rows of the printed table and the entries
\* of the structured report's files list come in the same order, and that
\* order is the ascending lexicographic order of the path strings.
C13_ReportOrder ==
    (DirMode /\ out_file.kind = "report") =>
        /\ \E i \in DOMAIN stdout :
              stdout[i].kind = "project_report" /\ stdout[i].rows = Listed(out_file.data)
        /\ \A i, j \in DOMAIN Listed(out_file.data) :
              i < j => CharsLess(Listed(out_file.data)[i], Listed(out_file.data)[j])

\* Every file main set out to audit has its report.
AllAudited ==
    \/ SingleMode /\ Len(file_reports) = 1
    \/ DirMode /\ files # << >> /\ Len(file_reports) = Len(files)

\* main ended through its own exit, not through an exception.
OwnExit == pc = "exit" /\ err \in { "none", "SystemExit" }

\* C29: with --output and every file audited, main has written the
\* structured report of this run when it exits by its own exit, for a file
\* and for a directory target and for either verdict: the exit on FAIL comes
\* after the write; and the printed report comes before the write.
C29_WriteBeforeExit ==
    /\ (OwnExit /\ output_arg /\ AllAudited) =>
          /\ out_file = Stored("report", BuildJson(target, file_reports, project))
          /\ Printed("json_written")
    /\ out_file.kind = "report" => Printed("file_report") \/ Printed("project_report")
    /\ \A i \in 1..Len(stdout) :
          stdout[i].kind = "json_written" =>
              \E j \in 1..(i - 1) : stdout[j].kind \in { "file_report", "project_report" }

\* A failed single file: report printed, then written, then exit status 1.
C29_Witness ==
    /\ SingleMode
    /\ pc = "exit"
    /\ exit_code = 1
    /\ Len(file_reports) = 1
    /\ file_reports[1].verdict = FAILED
    /\ out_file = Stored("report", BuildJson(target, file_reports, project))
    /\ Len(stdout) = 2
    /\ stdout[1].kind = "file_report"
    /\ stdout[2].kind = "json_written"

\* C15: at every point the output path holds what it held before the run,
\* or the complete report of this run.
C15_WriteAllOrNothing ==
    \/ out_file \in { Absent, OldReport }
    \/ out_file = Stored("report", BuildJson(target, file_reports, project))

\* C16: the structured report holds a project object exactly for a directory
\* target; for a single-file target its files list is one entry whose path is
\* the target; for a directory target the list has project.total_files
\* entries, one per collected file, in the order of collection.
C16_ReportShape ==
    out_file.kind = "report" =>
        LET d == out_file.data
        IN  /\ d.project # None <=> DirMode
            /\ SingleMode =>
                  /\ Len(d.files) = 1
                  /\ d.files[1].path = PathStr(target)
                  /\ d.target = d.files[1].path
            /\ DirMode =>
                  /\ d.project # None
                  /\ Len(d.files) = d.project[1].total_files
                  /\ Len(d.files) = Len(files)
                  /\ \A i \in DOMAIN files : d.files[i].path = PathStr(files[i])

\* The report of a directory scan of two files, and (in another run) the
\* report of a single-file audit.
C16_Witness ==
    /\ out_file.kind = "report"
    /\ DirMode
    /\ Len(files) = 2
    /\ out_file.data.project # None
    /\ out_file.data.project[1].total_files = 2
    /\ Len(out_file.data.files) = 2


-----------------------------------------------------------------------------
(* audit_file and aggregate called as functions: aggregate is applied to   *)
(* every list of up to MaxFiles reports, the empty list included.          *)

LibConfig(pcc, adf, ccr) ==
    [ DEFAULT_CONFIG EXCEPT !.project_cc_threshold = pcc,
                            !.adf_threshold = adf,
                            !.ccr_threshold = ccr ]

\* The default ceilings, and ceilings of 0 and of 1/2.
LibConfigs ==
    { LibConfig(pcc, adf, ccr) :
        pcc \in { Num(0, 1), Num(10, 1) },
        adf \in { Num(0, 1), Num(1, 20), Num(1, 2) },
        ccr \in { Num(0, 1), Num(3, 10) } }

Clean == << "x = 1" >>

\* A script without any function or class (cc_visit returns no block), a
\* file of two straight-line functions, a file within every default ceiling,
\* and files that differ from it in one
\* metric: CC below, at and above the ceilings, drift, technical lag, churn
\* at and above the ceiling; and one file that breaches everything.
LibCases ==
    { Case(FileInput(TRUE, TRUE, Clean, << >>), Query("exit", 0)),
      Case(FileInput(TRUE, TRUE, Clean, << 1, 1 >>), Query("exit", 0)),
      Case(FileInput(TRUE, TRUE, Clean, << 5 >>), Query("exit", 0)),
      Case(FileInput(TRUE, TRUE, Clean, << 9 >>), Query("exit", 0)),
      Case(FileInput(TRUE, TRUE, Clean, << 10 >>), Query("exit", 0)),
      Case(FileInput(TRUE, TRUE, Clean, << 3, 11 >>), Query("exit", 0)),
      Case(FileInput(TRUE, TRUE, Clean, << 20 >>), Query("exit", 0)),
      Case(FileInput(TRUE, TRUE, Clean, << 21 >>), Query("exit", 0)),
      Case(FileInput(TRUE, TRUE, << "print(x)" >>, << 5 >>), Query("exit", 0)),
      Case(FileInput(TRUE, TRUE, << "print(x)", "x = 1" >>, << 5 >>), Query("exit", 0)),
      Case(FileInput(TRUE, TRUE, << "x = 1", "os.path.x" >>, << 5 >>), Query("exit", 0)),
      Case(FileInput(TRUE, TRUE, Clean, << 5 >>), Query("exit", 3)),
      Case(FileInput(TRUE, TRUE, Clean, << 5 >>), Query("exit", 4)),
      Case(FileInput(TRUE, TRUE, << "print(x)", "os.path.x" >>, << 21 >>), Query("exit", 4)) }

LibNames == << "a.py", "b.py", "c.py", "m.py", "nope" >>
LibFiles(k) == [i \in 1..k |-> Path(FALSE, << LibNames[i] >>)]

InitLib ==
    /\ cwd = << "p" >>
    /\ target = Path(FALSE, << >>)
    /\ cfg_at = { }
    /\ output_arg = FALSE
    /\ out_file = Absent
    /\ pc = "audit"
    /\ doc = NoDoc
    /\ cfg_path = None
    /\ config \in LibConfigs
    /\ files \in { LibFiles(k) : k \in 0..MaxFiles }
    /\ inputs = << >>
    /\ file_reports = << >>
    /\ project = None
    /\ stdout = << >>
    /\ tree = { }
    /\ failed = FALSE
    /\ exit_code = Running
    /\ err = "none"
    /\ clock = 0
    /\ history = { }
    /\ first_out = None
    /\ rt = NoRetry
    /\ ex = NoExperiment
    /\ au = NotRun

NextLib ==
    \/ AuditNext(LibCases)
    \/ AggregateStep

SpecLib == InitLib /\ [][NextLib]_vars

\* x > ceiling, x < ceiling, x <= ceiling for a fraction x and a numeric ceiling.
Above(x, ceiling)   == x.n * ceiling.d > ceiling.n * x.d
Below(x, ceiling)   == x.n * ceiling.d < ceiling.n * x.d
AtMost(x, ceiling)  == x.n * ceiling.d <= ceiling.n * x.d

\* C1: a file's verdict is FAIL exactly when its max CC, its ADF or its churn
\* rate is strictly above its ceiling; the technical-lag flag plays no part.
C1_FileVerdict ==
    \A i \in DOMAIN file_reports :
        LET r == file_reports[i]
        IN  /\ r.verdict \in { FAILED, PASSED }
            /\ r.verdict = FAILED <=>
                 \/ Above(Rat(r.max_cc, 1), config.cc_threshold)
                 \/ Above(r.adf, config.adf_threshold)
                 \/ Above(r.ccr, config.ccr_threshold)

\* A file with CC 21, ADF 0 and churn 0 fails under the CC ceiling of 20, and
\* a file with technical lag whose three metrics sit at or below their
\* ceilings passes.
C1_Witness ==
    /\ config = DEFAULT_CONFIG
    /\ \E i \in DOMAIN file_reports :
         LET r == file_reports[i]
         IN  r.max_cc = 21 /\ r.adf.n = 0 /\ r.ccr.n = 0 /\ r.verdict = FAILED
    /\ \E i \in DOMAIN file_reports :
         LET r == file_reports[i]
         IN  r.max_cc = 20 /\ r.verdict = PASSED
    /\ \E i \in DOMAIN file_reports :
         LET r == file_reports[i]
         IN  r.tl = "HIGH" /\ r.verdict = PASSED

\* C2: for a non-empty list of reports the project verdict is PASS exactly
\* when every max CC is strictly below the project CC ceiling, every ADF is
\* strictly below the ADF ceiling, no file has its technical-lag flag set and
\* every churn rate is at most the churn ceiling.
C2_ProjectVerdict ==
    (project # None /\ file_reports # << >>) =>
        /\ project[1].verdict \in { FAILED, PASSED }
        /\ project[1].verdict = PASSED <=>
             /\ \A i \in DOMAIN file_reports :
                  Below(Rat(file_reports[i].max_cc, 1), config.project_cc_threshold)
             /\ \A i \in DOMAIN file_reports :
                  Below(file_reports[i].adf, config.adf_threshold)
             /\ \A i \in DOMAIN file_reports : file_reports[i].tl = "LOW"
             /\ \A i \in DOMAIN file_reports :
                  AtMost(file_reports[i].ccr, config.ccr_threshold)

\* Max CCs 5, 9 and 11 under a project ceiling of 10 and a file ceiling of 20:
\* every file passes and the project fails.
C2_Witness ==
    /\ project # None
    /\ Len(file_reports) = 3
    /\ file_reports[1].max_cc = 5 /\ file_reports[2].max_cc = 9
    /\ file_reports[3].max_cc = 11
    /\ config = DEFAULT_CONFIG
    /\ \A i \in DOMAIN file_reports : file_reports[i].verdict = PASSED
    /\ project[1].verdict = FAILED

\* C3: aggregate of the empty list gives zero files, zero metrics, no
\* polluted file, no technical lag and the verdict PASS, under every Config
\* with non-negative ceilings.
C3_EmptyAggregate ==
    (project # None /\ file_reports = << >>) =>
        /\ project[1].total_files = 0
        /\ project[1].max_cc = 0
        /\ project[1].mean_cc.n = 0
        /\ project[1].max_adf.n = 0
        /\ project[1].polluted_files = << >>
        /\ project[1].mean_ccr.n = 0
        /\ project[1].max_ccr.n = 0
        /\ project[1].global_tl = "LOW"
        /\ project[1].verdict = PASSED

\* The reports with a positive ADF, by position.
Drifting == { i \in DOMAIN file_reports : file_reports[i].adf.n > 0 }

\* The k-th smallest member of a set of positions.
Kth(S, k) == CHOOSE i \in S : Cardinality({ j \in S : j < i }) = k - 1

\* C17: polluted_files lists the path of every report whose ADF is above 0,
\* once each and in the order of the reports, and no other path, whatever
\* the verdicts and the ADF ceiling are.
C17_PollutedFiles ==
    project # None =>
        /\ Len(project[1].polluted_files) = Cardinality(Drifting)
        /\ \A k \in 1..Cardinality(Drifting) :
              project[1].polluted_files[k] = file_reports[Kth(Drifting, k)].path

\* Under an ADF ceiling of 1/2 a file with ADF 1/2 passes its own verdict
\* and is listed, after a clean file that is not listed and before a failed
\* file with ADF 1.
C17_Witness ==
    /\ project # None
    /\ Len(file_reports) = 3
    /\ config.adf_threshold = Num(1, 2)
    /\ file_reports[1].adf.n = 0
    /\ file_reports[2].adf = Rat(1, 2) /\ file_reports[2].verdict = PASSED
    /\ file_reports[3].adf = Rat(1, 1) /\ file_reports[3].verdict = FAILED
    /\ project[1].polluted_files = << file_reports[2].path, file_reports[3].path >>

\* C19: the reported max CC is the largest complexity among the file's
\* functions, never their sum, and it is at least 1 for every file: a file
\* of straight-line functions reports 1, and so does a file without any
\* function whose top-level code holds no decision point.
C19_MaxCc ==
    \A i \in DOMAIN file_reports :
        LET bs == inputs[i].inp.blocks
            cc == file_reports[i].max_cc
        IN  /\ cc >= 1
            /\ \A k \in DOMAIN bs : cc >= bs[k]
            /\ bs # << >> => \E k \in DOMAIN bs : cc = bs[k]
            /\ (\A k \in DOMAIN bs : bs[k] = 1) => cc = 1


-----------------------------------------------------------------------------
(* audit_file called twice, on every file of up to MaxLines lines and on   *)
(* every answer of the history query.                                      *)

LineSet == { "print(x)", "Print(x)", "import tkinter; print(x)", "os.path.x" }

AllLines == UNION { [1..k -> LineSet] : k \in 0..MaxLines }

PatternLists == { << >>, DefaultPatterns, << "x", "print(" >>, << "" >> }

AuditConfigs == { [DEFAULT_CONFIG EXCEPT !.illegal_patterns = pl] : pl \in PatternLists }

AdfCases == { Case(FileInput(TRUE, TRUE, ls, << 5 >>), Query("exit", 0)) : ls \in AllLines }

ChurnQueries ==
    { Query("exit", n) : n \in 0..MaxChanges } \cup
    { Query("norepo", 0), Query("timeout", 0), Query("missing", 0), Query("oserror", 0) }

ChurnCases == { Case(FileInput(TRUE, TRUE, Clean, << 5 >>), q) : q \in ChurnQueries }

InitAudit ==
    /\ cwd = << "p" >>
    /\ target = Path(FALSE, << >>)
    /\ cfg_at = { }
    /\ output_arg = FALSE
    /\ out_file = Absent
    /\ pc = "audit"
    /\ doc = NoDoc
    /\ cfg_path = None
    /\ config \in AuditConfigs
    /\ files = LibFiles(2)
    /\ inputs = << >>
    /\ file_reports = << >>
    /\ project = None
    /\ stdout = << >>
    /\ tree = { }
    /\ failed = FALSE
    /\ exit_code = Running
    /\ err = "none"
    /\ clock = 0
    /\ history = { }
    /\ first_out = None
    /\ rt = NoRetry
    /\ ex = NoExperiment
    /\ au = NotRun

AuditCases == AdfCases \cup ChurnCases

NextAudit ==
    \/ AuditNext(AuditCases)
    \/ AggregateStep

SpecAudit == InitAudit /\ [][NextAudit]_vars

\* The history query of report i ran to its end and printed n lines.
Counted(i) == inputs[i].q.kind = "exit"

\* C5: for a history query that printed n lines the churn score is
\* min(n / 10, 1): 0 for n = 0, 1 for n >= 10, within [0, 1], and
\* non-decreasing in n.
C5_ChurnScore ==
    /\ \A i \in DOMAIN file_reports :
         Counted(i) =>
            LET n == inputs[i].q.n
                c == file_reports[i].ccr
            IN  /\ c.d > 0 /\ 0 <= c.n /\ c.n <= c.d
                /\ n < 10 => c.n * 10 = n * c.d
                /\ n >= 10 => c.n = c.d
                /\ n = 0 => c.n = 0
    /\ \A i, j \in DOMAIN file_reports :
         (Counted(i) /\ Counted(j) /\ inputs[i].q.n <= inputs[j].q.n) =>
            file_reports[i].ccr.n * file_reports[j].ccr.d
                <= file_reports[j].ccr.n * file_reports[i].ccr.d

\* 25 changes and 10 changes both score 1.
C5_Witness ==
    /\ Len(file_reports) = 2
    /\ Counted(1) /\ inputs[1].q.n = 25 /\ file_reports[1].ccr.n = file_reports[1].ccr.d
    /\ Counted(2) /\ inputs[2].q.n = 10 /\ file_reports[2].ccr.n = file_reports[2].ccr.d

\* C6: whenever the history query fails, for whatever reason, audit_file
\* still returns a report for a readable file, with churn 0.0, and no
\* exception of the query ends the invocation.
C6_QueryFailureIsZero ==
    \A i \in DOMAIN inputs :
        (inputs[i].q.kind # "exit" /\ inputs[i].inp.readable /\ inputs[i].inp.parses) =>
            /\ i \in DOMAIN file_reports
            /\ file_reports[i].ccr.n = 0
            /\ err = "none"

\* The lines of ls that hold some pattern of ps as a contiguous run of
\* characters.
Matching(ls, ps) ==
    { i \in 1..Len(ls) :
        \E j \in 1..Len(ps) :
            \E a \in 1..(Len(Chars[ls[i]]) + 1) :
                \E b \in (a - 1)..Len(Chars[ls[i]]) :
                    SubSeq(Chars[ls[i]], a, b) = Chars[ps[j]] }

\* C7: ADF is the number of lines holding at least one illegal pattern over
\* the number of lines, a line counted once; 0 for no line and for no pattern,
\* 1 when every line matches, within [0, 1], and for a fixed line count
\* non-decreasing in the number of matching lines.
C7_Adf ==
    /\ \A i \in DOMAIN file_reports :
         LET ls == inputs[i].inp.lines
             m  == Cardinality(Matching(ls, config.illegal_patterns))
             a  == file_reports[i].adf
         IN  /\ a.d > 0 /\ 0 <= a.n /\ a.n <= a.d
             /\ Len(ls) = 0 => a.n = 0
             /\ Len(ls) > 0 => a.n * Len(ls) = m * a.d
             /\ config.illegal_patterns = << >> => a.n = 0
             /\ (Len(ls) > 0 /\ m = Len(ls)) => a.n = a.d
    /\ \A i, j \in DOMAIN file_reports :
         LET li == inputs[i].inp.lines
             lj == inputs[j].inp.lines
         IN  ( /\ Len(li) = Len(lj)
               /\ Cardinality(Matching(li, config.illegal_patterns))
                    <= Cardinality(Matching(lj, config.illegal_patterns)) ) =>
                file_reports[i].adf.n * file_reports[j].adf.d
                    <= file_reports[j].adf.n * file_reports[i].adf.d

\* A line holding two illegal patterns next to a line that differs from a
\* pattern only in case: ADF is 1/2.  And a file without lines: ADF is 0.
C7_Witness ==
    /\ Len(file_reports) = 2
    /\ config.illegal_patterns = DefaultPatterns
    /\ inputs[1].inp.lines = << "import tkinter; print(x)", "Print(x)" >>
    /\ file_reports[1].adf.n * 2 = file_reports[1].adf.d
    /\ inputs[2].inp.lines = << >>
    /\ file_reports[2].adf.n = 0

\* The lines of file i that hold os.path.
TlLines(i) == Matching(inputs[i].inp.lines, << "os.path" >>)

\* The number of evidence entries of the reports before report i.
Offset(i) == ISum([j \in 1..(i - 1) |-> Len(file_reports[j].tl_instances)])

\* C18: a file's technical-lag flag is set exactly when its evidence list is
\* not empty; the list holds one entry, the file's path with the 1-based
\* line number, for every line holding os.path, in ascending line order; the
\* project's flag is set exactly when some file's flag is, and the project's
\* evidence is the files' evidence lists one after the other in report order.
C18_TechnicalLag ==
    /\ \A i \in DOMAIN file_reports :
         LET r == file_reports[i]
         IN  /\ r.tl \in { "HIGH", "LOW" }
             /\ r.tl = "HIGH" <=> r.tl_instances # << >>
             /\ Len(r.tl_instances) = Cardinality(TlLines(i))
             /\ \A k \in 1..Len(r.tl_instances) :
                   r.tl_instances[k] = [path |-> files[i], line |-> Kth(TlLines(i), k)]
    /\ project # None =>
         /\ project[1].global_tl \in { "HIGH", "LOW" }
         /\ project[1].global_tl = "HIGH" <=>
               \E i \in DOMAIN file_reports : file_reports[i].tl = "HIGH"
         /\ Len(project[1].tl_instances) = Offset(Len(file_reports) + 1)
         /\ \A i \in DOMAIN file_reports :
               \A k \in 1..Len(file_reports[i].tl_instances) :
                   project[1].tl_instances[Offset(i) + k] = file_reports[i].tl_instances[k]

\* A file with os.path on both of its lines, then a file with os.path on its
\* second line only: three entries, a.py:1, a.py:2, b.py:2.
C18_Witness ==
    /\ Len(file_reports) = 2
    /\ inputs[1].inp.lines = << "os.path.x", "os.path.x" >>
    /\ inputs[2].inp.lines = << "print(x)", "os.path.x" >>
    /\ project # None
    /\ project[1].global_tl = "HIGH"
    /\ project[1].tl_instances =
          << [path |-> Path(FALSE, << "a.py" >>), line |-> 1],
             [path |-> Path(FALSE, << "a.py" >>), line |-> 2],
             [path |-> Path(FALSE, << "b.py" >>), line |-> 2] >>


-----------------------------------------------------------------------------
(* load_config alone: every working directory, every spelling of every     *)
(* target, every placement of .sts.toml files, every subset of the fields. *)

\* The value a document gives a field it holds; "extra" and "other" are
\* fields the schema does not know.
DocValue ==
    ( "max_cc" :> Num(7, 1) ) @@ ( "adf" :> Num(1, 4) ) @@ ( "ccr" :> Num(1, 2) ) @@
    ( "project_max_cc" :> Num(4, 1) ) @@ ( "extra" :> Num(99, 1) ) @@
    ( "illegal" :> List(<< "x" >>) ) @@ ( "other" :> List(<< "print(" >>) ) @@
    ( "dirs" :> List(<< "venv", "p", "venv" >>) )

\* Every table holding a subset of keys.
TablesOver(keys) == { Table([k \in S |-> DocValue[k]]) : S \in SUBSET keys }

\* A section that is absent, or present with one of tables.
Section(name, tables) == { EmptyDict } \cup { name :> t : t \in tables }

CfgDocs ==
    { DocOf(t @@ p @@ s @@ u) :
        t \in Section("thresholds",
                      TablesOver({ "max_cc", "adf", "ccr", "project_max_cc", "extra" })),
        p \in Section("patterns", TablesOver({ "illegal", "other" })),
        s \in Section("skip", TablesOver({ "dirs", "other" })),
        u \in Section("meta", TablesOver({ "max_cc" })) }
    \cup { Unparseable, DocOf("skip" :> NotATable) }
    \cup { DocOf("thresholds" :> Table(k :> Num(-1, 1))) :
             k \in { "max_cc", "adf", "ccr", "project_max_cc" } }

InitCfg ==
    /\ cwd \in Dirs
    /\ target \in UNION { Spellings(loc, cwd) :
                            loc \in Dirs \cup RegularFiles \cup MissingLocs }
    /\ cfg_at \in SUBSET Dirs
    /\ output_arg = FALSE
    /\ out_file = Absent
    /\ pc = "start"
    /\ doc = NoDoc
    /\ cfg_path = None
    /\ config = None
    /\ files = << >>
    /\ inputs = << >>
    /\ file_reports = << >>
    /\ project = None
    /\ stdout = << >>
    /\ tree = { }
    /\ failed = FALSE
    /\ exit_code = Running
    /\ err = "none"
    /\ clock = 0
    /\ history = { }
    /\ first_out = None
    /\ rt = NoRetry
    /\ ex = NoExperiment
    /\ au = NotRun

NextCfg == LoadConfig(CfgDocs)

SpecCfg == InitCfg /\ [][NextCfg]_vars

\* Document d holds field k in section sec.
HasField(d, sec, k) ==
    /\ sec \in DOMAIN d.raw
    /\ d.raw[sec].tag = "table"
    /\ k \in DOMAIN d.raw[sec].f

\* The value of field k of section sec of d when it is there, else dflt.
FieldOr(d, sec, k, dflt) == IF HasField(d, sec, k) THEN d.raw[sec].f[k] ELSE dflt

\* C8: each of the six fields of the Config takes the document's value when
\* the document holds that field and the built-in default otherwise, whatever
\* else the section holds; nothing else in the document changes the Config.
C8_FieldMerge ==
    (pc = "loaded" /\ cfg_path # None) =>
        /\ config.cc_threshold = FieldOr(doc, "thresholds", "max_cc", Num(20, 1))
        /\ config.adf_threshold = FieldOr(doc, "thresholds", "adf", Num(1, 20))
        /\ config.ccr_threshold = FieldOr(doc, "thresholds", "ccr", Num(3, 10))
        /\ config.project_cc_threshold =
               FieldOr(doc, "thresholds", "project_max_cc", Num(10, 1))
        /\ config.illegal_patterns =
               FieldOr(doc, "patterns", "illegal",
                       List(<< "import tkinter", "from bookstore_ui", "print(" >>)).l
        /\ config.skip_dirs =
               Range(FieldOr(doc, "skip", "dirs",
                             List(<< "__pycache__", ".venv", "venv", ".git" >>)).l)

\* A document whose thresholds section holds max_cc and an unknown field
\* only, next to an unknown section: max_cc is taken, the other ceilings keep
\* their defaults.
C8_Witness ==
    /\ pc = "loaded"
    /\ cfg_path # None
    /\ HasField(doc, "thresholds", "max_cc") /\ HasField(doc, "thresholds", "extra")
    /\ ~HasField(doc, "thresholds", "adf") /\ ~HasField(doc, "thresholds", "ccr")
    /\ ~HasField(doc, "thresholds", "project_max_cc")
    /\ "meta" \in DOMAIN doc.raw
    /\ config.cc_threshold = Num(7, 1)
    /\ config.adf_threshold = Num(1, 20)
    /\ config.project_cc_threshold = Num(10, 1)

\* The directory the search starts at, as an absolute location.
StartDir ==
    LET loc == Resolve(target, cwd)
    IN  IF loc \in Dirs THEN loc ELSE SubSeq(loc, 1, Len(loc) - 1)

\* StartDir and its ancestors up to the root that hold a document.
HoldersAbove == { h \in cfg_at : IsPrefix(h, StartDir) }

\* C9: the resolver uses the document of the nearest directory among the
\* target's directory and all its ancestors up to the root; when none holds
\* one, the Config is the built-in defaults and load_config ends normally.
C9_NearestConfig ==
    pc # "start" =>
        IF HoldersAbove = { }
          THEN /\ cfg_path = None
               /\ pc = "loaded"
               /\ config = DEFAULT_CONFIG
               /\ config.cc_threshold = Num(20, 1)
               /\ config.adf_threshold = Num(1, 20)
               /\ config.ccr_threshold = Num(3, 10)
               /\ config.project_cc_threshold = Num(10, 1)
          ELSE /\ cfg_path # None
               /\ \E h \in HoldersAbove :
                    /\ \A g \in HoldersAbove : Len(g) <= Len(h)
                    /\ Resolve(cfg_path[1], cwd) = Append(h, ".sts.toml")


\* C20: every Config that load_config returns has its four ceilings
\* non-negative.
C20_ThresholdsNonNegative ==
    pc = "loaded" =>
        /\ config.cc_threshold.tag = "num" /\ config.cc_threshold.n >= 0
        /\ config.adf_threshold.tag = "num" /\ config.adf_threshold.n >= 0
        /\ config.ccr_threshold.tag = "num" /\ config.ccr_threshold.n >= 0
        /\ config.project_cc_threshold.tag = "num" /\ config.project_cc_threshold.n >= 0


-----------------------------------------------------------------------------
(* main invoked twice on one target: the files, the configuration and the  *)
(* version-control history stay as they are, the clock moves on.           *)

\* The days on which the history may hold a commit.
CommitDays == { 0, 5, 12 }

\* The content of the file at path: the same at every read.
DiskContent(path) ==
    IF path.parts[Len(path.parts)] = "a.py"
      THEN FileInput(TRUE, TRUE, << "print(x)", "x = 1" >>, << 3 >>)
      ELSE FileInput(TRUE, TRUE, << "x = 1", "os.path.x" >>, << 3, 11 >>)

\* What audit_file meets at path on the day of the run.
DiskCases(path) == { Case(DiskContent(path), GitLog(history, clock)) }

\* The configuration document, when the target's directory holds one.
RerunDocs == { DocOf("thresholds" :> Table("max_cc" :> Num(2, 1))) }

InitRerun ==
    /\ cwd = << "p" >>
    /\ target \in { Path(FALSE, << "m.py" >>), Path(FALSE, << "s" >>), Path(TRUE, << "p" >>) }
    /\ cfg_at \in { { }, { << "p" >> } }
    /\ output_arg = TRUE
    /\ out_file \in { Absent, OldReport }
    /\ pc = "start"
    /\ doc = NoDoc
    /\ cfg_path = None
    /\ config = None
    /\ files = << >>
    /\ inputs = << >>
    /\ file_reports = << >>
    /\ project = None
    /\ stdout = << >>
    /\ tree \in (IF IsDirAt(target, cwd) THEN Trees \ { { } } ELSE { { } })
    /\ failed = FALSE
    /\ exit_code = Running
    /\ err = "none"
    /\ clock \in 12..MaxDay
    /\ history \in SUBSET CommitDays
    /\ first_out = None
    /\ rt = NoRetry
    /\ ex = NoExperiment
    /\ au = NotRun

NextRerun ==
    \/ LoadConfig(RerunDocs)
    \/ AuditSingle(DiskCases(target))
    \/ PrintFileReport
    \/ CollectStep({ tree })
    \/ AuditNext(DiskCases(files[Len(file_reports) + 1]))
    \/ AggregateStep
    \/ PrintProjectReport
    \/ WriteJson
    \/ Finish
    \/ Rerun

SpecRerun == InitRerun /\ [][NextRerun]_vars

\* C14: a second invocation on the same target, with the file tree, the
\* configuration and the history unchanged, writes the same structured report
\* as the first, whatever the day of each run.
C14_RerunIdentical ==
    (first_out # None /\ Printed("json_written")) => out_file.data = first_out[1]

-----------------------------------------------------------------------------
(* Directory mode from the first audit_file call to the exit status, over  *)
(* file and project CC ceilings on both sides of each other.               *)

\* Whole ceilings, and the ceilings max_cc = 20.5 with project_max_cc = 21.5
\* and max_cc = 20 with project_max_cc = 20.5 of a configuration file.
ProjectConfigs ==
    { [ DEFAULT_CONFIG EXCEPT !.cc_threshold = cc, !.project_cc_threshold = pcc ] :
        cc  \in { Num(9, 1), Num(20, 1) },
        pcc \in { Num(0, 1), Num(10, 1), Num(11, 1), Num(22, 1) } }
    \cup { [ DEFAULT_CONFIG EXCEPT !.cc_threshold = Num(41, 2),
                                   !.project_cc_threshold = Num(43, 2) ],
           [ DEFAULT_CONFIG EXCEPT !.cc_threshold = Num(20, 1),
                                   !.project_cc_threshold = Num(41, 2) ] }

\* A script, files with CC 10 and 21, a file with drift, files with churn
\* at and above the default ceiling, and a file with technical lag.
ProjectCases ==
    { Case(FileInput(TRUE, TRUE, Clean, << >>), Query("exit", 0)),
      Case(FileInput(TRUE, TRUE, Clean, << 10 >>), Query("exit", 0)),
      Case(FileInput(TRUE, TRUE, Clean, << 21 >>), Query("exit", 0)),
      Case(FileInput(TRUE, TRUE, << "print(x)", "x = 1" >>, << 5 >>), Query("exit", 0)),
      Case(FileInput(TRUE, TRUE, Clean, << 9 >>), Query("exit", 3)),
      Case(FileInput(TRUE, TRUE, Clean, << 5 >>), Query("exit", 4)),
      Case(FileInput(TRUE, TRUE, << "x = 1", "os.path.x" >>, << 5 >>), Query("exit", 0)) }

InitProject ==
    /\ cwd = << "p" >>
    /\ target = Path(FALSE, << >>)
    /\ cfg_at = { }
    /\ output_arg = FALSE
    /\ out_file = Absent
    /\ pc = "audit"
    /\ doc = NoDoc
    /\ cfg_path = None
    /\ config \in ProjectConfigs
    /\ files \in { LibFiles(k) : k \in 1..MaxFiles }
    /\ inputs = << >>
    /\ file_reports = << >>
    /\ project = None
    /\ stdout = << >>
    /\ tree = { }
    /\ failed = FALSE
    /\ exit_code = Running
    /\ err = "none"
    /\ clock = 0
    /\ history = { }
    /\ first_out = None
    /\ rt = NoRetry
    /\ ex = NoExperiment
    /\ au = NotRun

NextProject ==
    \/ AuditNext(ProjectCases)
    \/ AggregateStep
    \/ PrintProjectReport
    \/ Finish

SpecProject == InitProject /\ [][NextProject]_vars

-----------------------------------------------------------------------------
(* aggregate as a fold over the list of reports.                           *)

\* The orders a list of n reports can be given in.
Perms(n) == { f \in [1..n -> 1..n] : \A i, j \in 1..n : f[i] = f[j] => i = j }

Permuted(s, f) == [i \in 1..Len(s) |-> s[f[i]]]

\* Two results of aggregate agree on verdict, file count, the three maxima
\* and the technical-lag flag.
SameSummary(a, b) ==
    /\ a.ok = b.ok
    /\ a.ok =>
          /\ a.val.verdict = b.val.verdict
          /\ a.val.total_files = b.val.total_files
          /\ a.val.max_cc = b.val.max_cc
          /\ REq(a.val.max_adf, b.val.max_adf)
          /\ REq(a.val.max_ccr, b.val.max_ccr)
          /\ a.val.global_tl = b.val.global_tl

\* Stated where main calls aggregate: every file audited, project not set.
OrderIndependent ==
    pc = "audit" /\ Len(file_reports) = Len(files) =>
        \A f \in Perms(Len(file_reports)) :
            SameSummary(Aggregate(file_reports, config),
                        Aggregate(Permuted(file_reports, f), config))

\* project is assigned once, from the reports of all collected files.
Barrier ==
    project' # project =>
        /\ project = None
        /\ Len(file_reports) = Len(files)
        /\ file_reports' = file_reports
        /\ project' = Some(Aggregate(file_reports, config).val)

\* C22: aggregate gives the same verdict, total_files, max CC, max ADF, max
\* churn and technical-lag flag for every order of the same reports, and in
\* directory mode it runs once, after audit_file has returned for every
\* collected file.
C22_OrderIndependentFold == [](OrderIndependent) /\ [][Barrier]_vars

\* Three reports whose greatest CC, ADF and churn are not in the last one.
C22_Witness ==
    /\ project # None
    /\ Len(file_reports) = 3
    /\ file_reports[1].max_cc > file_reports[3].max_cc
    /\ file_reports[2].max_cc > file_reports[1].max_cc
    /\ RGt(file_reports[1].adf, file_reports[3].adf)
    /\ RGt(file_reports[2].ccr, file_reports[3].ccr)
    /\ file_reports[3].verdict = PASSED
    /\ project[1].verdict = FAILED

-----------------------------------------------------------------------------
(* File policy against project policy.                                     *)

\* project CC ceiling <= file CC ceiling + 1
CeilingsClose ==
    RLe(Rat(config.project_cc_threshold.n, config.project_cc_threshold.d),
        Rat(config.cc_threshold.n + config.cc_threshold.d, config.cc_threshold.d))

WholeNumber(x) == x.n % x.d = 0

SomeFileFails == \E i \in 1..Len(file_reports) : file_reports[i].verdict = FAILED

\* A failed file fails the project, and status 0 means that no file failed.
ProjectAtLeastAsStrict ==
    /\ project # None /\ SomeFileFails => project[1].verdict = FAILED
    /\ pc = "exit" /\ exit_code = 0 => ~SomeFileFails

-----------------------------------------------------------------------------
(* A directory scan whose history queries return or run into the timeout   *)
(* of subprocess.run.  The interpreter keeps executing main, and every     *)
(* blocking call of the scan is bounded by that timeout: weak fairness of  *)
(* the next step.                                                          *)

\* The query returns (no change, four changes) or is abandoned after 5 s.
ScanQueries == { Query("exit", 0), Query("exit", 4), Query("timeout", 0) }

ScanCases ==
    { Case(FileInput(TRUE, TRUE, Clean, blocks), q) :
        blocks \in { << 5 >>, << 21 >> }, q \in ScanQueries }

InitScan ==
    /\ cwd = << "p" >>
    /\ target = Path(FALSE, << >>)
    /\ cfg_at = { }
    /\ output_arg = FALSE
    /\ out_file = Absent
    /\ pc = "audit"
    /\ doc = NoDoc
    /\ cfg_path = None
    /\ config = DEFAULT_CONFIG
    /\ files \in { LibFiles(k) : k \in 1..MaxFiles }
    /\ inputs = << >>
    /\ file_reports = << >>
    /\ project = None
    /\ stdout = << >>
    /\ tree = { }
    /\ failed = FALSE
    /\ exit_code = Running
    /\ err = "none"
    /\ clock = 0
    /\ history = { }
    /\ first_out = None
    /\ rt = NoRetry
    /\ ex = NoExperiment
    /\ au = NotRun

NextScan ==
    \/ AuditNext(ScanCases)
    \/ AggregateStep
    \/ PrintProjectReport
    \/ Finish

SpecScan == InitScan /\ [][NextScan]_vars /\ WF_vars(NextScan)

\* Every abandoned query gave its file the churn score 0.
TimeoutIsZero ==
    \A i \in 1..Len(file_reports) :
        inputs[i].q.kind = "timeout" => REq(file_reports[i].ccr, Rat(0, 1))

\* The scan has passed every file, aggregated and exited.
ScanDone ==
    /\ pc = "exit"
    /\ Len(file_reports) = Len(files)
    /\ project # None
    /\ exit_code \in { 0, 1 }

\* C23: a directory scan terminates although history queries stall: a query
\* returns or is abandoned at its timeout with churn 0.0, the scan goes on
\* to the next file, and with N collected files it eventually reaches
\* aggregation and exit.
C23_ScanTerminates == [](TimeoutIsZero) /\ <>(ScanDone)

\* A scan of three files that ended after the first and the last query
\* stalled.
C23_Witness ==
    /\ ScanDone
    /\ Len(files) = 3
    /\ inputs[1].q.kind = "timeout"
    /\ inputs[2].q.kind = "exit"
    /\ inputs[3].q.kind = "timeout"

-----------------------------------------------------------------------------
(* call_with_retry.                                                        *)

\* The texts of the exceptions a caller raises, and the keywords of line 179.
MsgChars ==
    ( "Rate limit" :> << "R","a","t","e"," ","l","i","m","i","t" >> ) @@
    ( "HTTP 503"   :> << "H","T","T","P"," ","5","0","3" >> ) @@
    ( "bad key"    :> << "b","a","d"," ","k","e","y" >> ) @@
    ( "timed out"  :> << "t","i","m","e","d"," ","o","u","t" >> ) @@
    ( "rate"       :> << "r","a","t","e" >> ) @@
    ( "429"        :> << "4","2","9" >> ) @@
    ( "quota"      :> << "q","u","o","t","a" >> ) @@
    ( "resource_exhausted" :>
        << "r","e","s","o","u","r","c","e","_","e","x","h","a","u","s","t","e","d" >> ) @@
    ( "503"        :> << "5","0","3" >> ) @@
    ( "unavailable" :> << "u","n","a","v","a","i","l","a","b","l","e" >> ) @@
    ( "overloaded" :> << "o","v","e","r","l","o","a","d","e","d" >> ) @@
    ( "500"        :> << "5","0","0" >> )

Keywords ==
    { "rate", "429", "quota", "resource_exhausted", "503", "unavailable",
      "overloaded", "500" }

LowerCase == ( "R" :> "r" ) @@ ( "H" :> "h" ) @@ ( "T" :> "t" ) @@ ( "P" :> "p" )

\* str.lower()
Lower(cs) ==
    [i \in DOMAIN cs |-> IF cs[i] \in DOMAIN LowerCase THEN LowerCase[cs[i]] ELSE cs[i]]

\* `a in b` over the characters of two strings.
SeqIn(ca, cb) ==
    \E i \in 0..(Len(cb) - Len(ca)) : \A j \in 1..Len(ca) : cb[i + j] = ca[j]

\* Every exception is taken for a rate-limit error.
IsRetryableAlways(msg) == TRUE

\* any(kw in err_str for kw in (...)) with err_str = str(e).lower()
IsRetryable(msg) == \E kw \in Keywords : SeqIn(MsgChars[kw], Lower(MsgChars[msg]))

Providers == { "google", "anthropic" }

\* base_wait = 10 if provider == "google" else 2
BaseWait(provider) == IF provider = "google" THEN 10 ELSE 2

\* random.uniform(0, 1), in halves of a second.
Jitter == { Rat(0, 2), Rat(1, 2), Rat(2, 2) }

\* wait = base_wait * (2 ** attempt) + random.uniform(0, 1)
Wait(base, attempt, j) == Rat(base * (2 ^ attempt) * j.d + j.n, j.d)

ErrorMessages == { "Rate limit", "HTTP 503", "bad key", "timed out" }

\* The checker is not running.
CheckerAtRest ==
    /\ cwd = << "p" >>
    /\ target = Path(FALSE, << >>)
    /\ cfg_at = { }
    /\ output_arg = FALSE
    /\ out_file = Absent
    /\ pc = "exit"
    /\ doc = NoDoc
    /\ cfg_path = None
    /\ config = DEFAULT_CONFIG
    /\ files = << >>
    /\ inputs = << >>
    /\ file_reports = << >>
    /\ project = None
    /\ stdout = << >>
    /\ tree = { }
    /\ failed = FALSE
    /\ exit_code = Running
    /\ err = "none"
    /\ clock = 0
    /\ history = { }
    /\ first_out = None

\* return caller(model_id, prompt)
CallReturns ==
    /\ rt.st = "running"
    /\ rt.attempt < rt.max_retries
    /\ rt' = [rt EXCEPT !.calls = @ + 1, !.st = "returned"]
    /\ UNCHANGED << checker, ex, au >>

\* The caller raises: a rate-limit error is slept on and the loop goes on,
\* any other exception is raised again.
CallRaises(msgs) ==
    /\ rt.st = "running"
    /\ rt.attempt < rt.max_retries
    /\ \E msg \in msgs :
          IF IsRetryable(msg)
            THEN \E j \in Jitter :
                    rt' = [rt EXCEPT !.calls = @ + 1,
                                     !.errors = Append(@, msg),
                                     !.waits = Append(@, Wait(rt.base_wait, rt.attempt, j)),
                                     !.attempt = @ + 1]
            ELSE rt' = [rt EXCEPT !.calls = @ + 1,
                                  !.errors = Append(@, msg),
                                  !.st = "raised"]
    /\ UNCHANGED << checker, ex, au >>

\* The loop has run max_retries times: raise Exception("Rate limited ...").
Exhausted ==
    /\ rt.st = "running"
    /\ rt.attempt = rt.max_retries
    /\ rt' = [rt EXCEPT !.st = "rate_limited"]
    /\ UNCHANGED << checker, ex, au >>

InitRetry ==
    /\ CheckerAtRest
    /\ rt \in { [ NoRetry EXCEPT !.base_wait = BaseWait(provider),
                                 !.max_retries = m,
                                 !.st = "running" ] :
                  provider \in Providers, m \in 0..MaxRetries }
    /\ ex = NoExperiment
    /\ au = NotRun

NextRetry ==
    \/ CallReturns
    \/ CallRaises(ErrorMessages)
    \/ Exhausted

SpecRetry == InitRetry /\ [][NextRetry]_vars

\* The rate-limit and overload errors among the messages.
RateLimitErrors == { "Rate limit", "HTTP 503" }

AllRateLimited(errs) == \A i \in 1..Len(errs) : errs[i] \in RateLimitErrors

\* C24: call_with_retry calls the caller at most max_retries times and ends
\* in one of three ways: it returns after the first successful call; it
\* raises the first exception that is no rate-limit error again, without a
\* wait; or it raises "Rate limited" after max_retries rate-limit errors in
\* a row.  The wait before retry k (from 0) is at least base_wait * 2^k, and
\* the waits strictly increase.
C24_RetryOutcomes ==
    /\ rt.calls <= rt.max_retries
    /\ rt.st \in { "running", "returned", "raised", "rate_limited" }
    /\ rt.st = "running" =>
          /\ rt.calls = Len(rt.errors)
          /\ AllRateLimited(rt.errors)
          /\ rt.attempt <= rt.max_retries
    /\ rt.st = "returned" =>
          /\ rt.calls = Len(rt.errors) + 1
          /\ AllRateLimited(rt.errors)
    /\ rt.st = "raised" =>
          /\ rt.calls = Len(rt.errors)
          /\ rt.errors[Len(rt.errors)] \notin RateLimitErrors
          /\ AllRateLimited(SubSeq(rt.errors, 1, Len(rt.errors) - 1))
          /\ Len(rt.waits) = Len(rt.errors) - 1
    /\ rt.st = "rate_limited" =>
          /\ rt.calls = rt.max_retries
          /\ Len(rt.errors) = rt.max_retries
          /\ AllRateLimited(rt.errors)
    /\ \A k \in 1..Len(rt.waits) :
          RLe(Rat(rt.base_wait * (2 ^ (k - 1)), 1), rt.waits[k])
    /\ \A k \in 1..(Len(rt.waits) - 1) : RLt(rt.waits[k], rt.waits[k + 1])

\* Three rate-limit errors in a row with the longest wait first and the
\* shortest second, then "Rate limited".
C24_Witness ==
    /\ rt.st = "rate_limited"
    /\ rt.max_retries = 3
    /\ rt.base_wait = 2
    /\ REq(rt.waits[1], Rat(3, 1))
    /\ REq(rt.waits[2], Rat(4, 1))

-----------------------------------------------------------------------------
(* run_experiment: plan, resume, one run after the other, save_results.    *)

\* The plan of one model, one condition and one task:
\* plan.append((model, condition, task, rep)) for rep in range(1, n + 1).
PlanOf(n) == [rep \in 1..n |-> << "m", "c", "t", rep >>]

\* A results entry: its key fields, whether it holds "error", and its
\* timestamp (the number of the run that produced it; 0 before the model).
Entry(key, outcome, stamp) ==
    [ model_name |-> key[1], condition |-> key[2], task |-> key[3], rep |-> key[4],
      error |-> outcome # "ok", outcome |-> outcome, timestamp |-> stamp ]

\* _result_key
ResultKey(r) == << r.model_name, r.condition, r.task, r.rep >>

RECURSIVE Without(_, _)
\* [r for r in results if _result_key(r) != key]
Without(results, key) ==
    IF results = << >> THEN << >>
    ELSE IF ResultKey(results[1]) # key
           THEN << results[1] >> \o Without(Tail(results), key)
           ELSE Without(Tail(results), key)

\* _dedup_append that only appends.
DedupAppendKeepsAll(results, entry) == Append(results, entry)

\* _dedup_append
DedupAppend(results, entry) == Append(Without(results, ResultKey(entry)), entry)

RECURSIVE NotIn(_, _)
\* [p for p in plan if p not in completed]
NotIn(plan, completed) ==
    IF plan = << >> THEN << >>
    ELSE IF plan[1] \notin completed
           THEN << plan[1] >> \o NotIn(Tail(plan), completed)
           ELSE NotIn(Tail(plan), completed)

\* remaining with every recorded key counted as completed.
RemainingSkipsRecorded(plan, results) ==
    NotIn(plan, { ResultKey(results[i]) : i \in 1..Len(results) })

\* completed = {key(r) for r in results if "error" not in r};
\* remaining = [p for p in plan if p not in completed]
Remaining(plan, results) ==
    NotIn(plan, { ResultKey(results[i]) : i \in { j \in 1..Len(results) : ~results[j].error } })

\* What a path holds: nothing, a file that is not complete, or a list.
OnDisk(kind, list) == [kind |-> kind, list |-> list]
NoFile == OnDisk("absent", << >>)
PartialFile == OnDisk("partial", << >>)

\* What one run ends in: call_with_retry raised, the response was
\* safety-blocked, or the run went through to its result entry.
Outcomes == { "api_error", "blocked", "ok" }

\* Results files of earlier experiments: none, and one that holds a failed
\* run of rep 2 before a successful run of rep 1.
PriorFiles ==
    { NoFile,
      OnDisk("list", << Entry(<< "m", "c", "t", 2 >>, "api_error", 0),
                        Entry(<< "m", "c", "t", 1 >>, "ok", 0) >>) }

\* results = json.load(RESULTS_FILE) if it exists; completed; remaining.
StartExperiment ==
    /\ ex.st = "start"
    /\ IF ex.file.kind = "partial"
         THEN ex' = [ex EXCEPT !.st = "crashed"]
         ELSE ex' = [ex EXCEPT !.results = ex.file.list,
                               !.loaded = ex.file.list,
                               !.remaining = Remaining(ex.plan, ex.file.list),
                               !.executed = << >>,
                               !.st = "loop"]
    /\ UNCHANGED << checker, rt, au >>

\* One iteration of the loop up to `results = _dedup_append(results, ...)`.
RunItem(outcomes) ==
    /\ ex.st = "loop"
    /\ ex.remaining # << >>
    /\ \E o \in outcomes :
          LET entry == Entry(Head(ex.remaining), o, ex.runs + 1)
          IN  ex' = [ex EXCEPT !.results = DedupAppend(ex.results, entry),
                               !.executed = Append(@, entry),
                               !.remaining = Tail(@),
                               !.runs = @ + 1,
                               !.st = "save"]
    /\ UNCHANGED << checker, rt, au >>

\* save_results writing the list where the results file is.
SaveWriteInPlace ==
    /\ ex.st = "save"
    /\ ex' = [ex EXCEPT !.file = PartialFile,
                        !.tmp = OnDisk("list", ex.results),
                        !.st = "rename"]
    /\ UNCHANGED << checker, rt, au >>

\* save_results: open(tmp, "w"), json.dump, flush, fsync, close.
SaveWrite ==
    /\ ex.st = "save"
    /\ ex' = [ex EXCEPT !.tmp = OnDisk("list", ex.results), !.st = "rename"]
    /\ UNCHANGED << checker, rt, au >>

\* save_results: tmp.rename(RESULTS_FILE); then `continue` or the delay.
SaveRename ==
    /\ ex.st = "rename"
    /\ ex' = [ex EXCEPT !.file = ex.tmp,
                        !.tmp = NoFile,
                        !.saved = Append(@, ex.executed[Len(ex.executed)]),
                        !.st = "loop"]
    /\ UNCHANGED << checker, rt, au >>

\* The loop is through: summary and return.
FinishExperiment ==
    /\ ex.st = "loop"
    /\ ex.remaining = << >>
    /\ ex' = [ex EXCEPT !.st = "done"]
    /\ UNCHANGED << checker, rt, au >>

\* The process ends at any point (signal, power, uncaught exception): what
\* it held in memory is gone, and a write of the temporary file that was
\* under way leaves it incomplete.
CrashExperiment ==
    /\ ex.st \in { "start", "loop", "save", "rename" }
    /\ \E t \in (IF ex.st = "save" THEN { ex.tmp, PartialFile } ELSE { ex.tmp }) :
          ex' = [ex EXCEPT !.results = << >>,
                           !.loaded = << >>,
                           !.remaining = << >>,
                           !.executed = << >>,
                           !.tmp = t,
                           !.crashes = @ + 1,
                           !.st = "crashed"]
    /\ UNCHANGED << checker, rt, au >>

\* run_experiment is invoked again.
ResumeExperiment ==
    /\ ex.st \in { "crashed", "done" }
    /\ ex.invocations < MaxInvocations
    /\ ex' = [ex EXCEPT !.invocations = @ + 1, !.st = "start"]
    /\ UNCHANGED << checker, rt, au >>

InitExperiment ==
    /\ CheckerAtRest
    /\ rt = NoRetry
    /\ au = NotRun
    /\ ex \in { [ NoExperiment EXCEPT !.plan = PlanOf(MaxReps),
                                      !.file = f,
                                      !.invocations = 1,
                                      !.st = "start" ] : f \in PriorFiles }

NextExperiment ==
    \/ StartExperiment
    \/ RunItem(Outcomes)
    \/ SaveWrite
    \/ SaveRename
    \/ FinishExperiment
    \/ CrashExperiment
    \/ ResumeExperiment

SpecExperiment == InitExperiment /\ [][NextExperiment]_vars

\* run_experiment holds a results list.
Holding == ex.st \in { "loop", "save", "rename", "done" }

DistinctKeys(list) ==
    \A i, j \in 1..Len(list) : ResultKey(list[i]) = ResultKey(list[j]) => i = j

\* The entries this invocation knows of, oldest first: those it loaded, then
\* the outcomes of its own runs.
Known == ex.loaded \o ex.executed

\* The outcome of the most recent run of the key of Known[i].
MostRecent(i) ==
    \A j \in 1..Len(Known) : ResultKey(Known[j]) = ResultKey(Known[i]) => j <= i

\* C25: from a results list with distinct keys, whatever runs, failures and
\* resumed invocations follow, the list holds one entry for each key that was
\* loaded or run, and that entry is the outcome of the most recent run of the
\* key: a later success replaces an earlier error entry.
C25_OneEntryPerKey ==
    /\ ex.file.kind = "list" => DistinctKeys(ex.file.list)
    /\ Holding =>
          /\ DistinctKeys(ex.results)
          /\ Range(ex.results) = { Known[i] : i \in { j \in 1..Len(Known) : MostRecent(j) } }
          /\ \A i \in 1..Len(ex.results) :
                \A j \in 1..Len(Known) :
                    ResultKey(Known[j]) = ResultKey(ex.results[i]) =>
                        Known[j].timestamp <= ex.results[i].timestamp

\* A resumed invocation whose successful run replaced the error entry that
\* an earlier invocation had recorded for the same key.
C25_Witness ==
    /\ ex.st = "done"
    /\ ex.invocations = 2
    /\ Len(ex.results) = 2
    /\ \E i \in 1..Len(ex.loaded) :
          /\ ex.loaded[i].error
          /\ ex.loaded[i].timestamp > 0
          /\ \E j \in 1..Len(ex.results) :
                /\ ResultKey(ex.results[j]) = ResultKey(ex.loaded[i])
                /\ ~ex.results[j].error

\* The plan item has no loaded entry, or a loaded entry with an error.
NeedsRun(p, loaded) ==
    \A i \in 1..Len(loaded) : ResultKey(loaded[i]) = p => loaded[i].error

RECURSIVE Due(_, _)
\* The plan items that need a run, in plan order.
Due(plan, loaded) ==
    IF plan = << >> THEN << >>
    ELSE (IF NeedsRun(plan[1], loaded) THEN << plan[1] >> ELSE << >>)
         \o Due(Tail(plan), loaded)

ExecutedKeys == [i \in 1..Len(ex.executed) |-> ResultKey(ex.executed[i])]

\* C26: an invocation executes exactly the plan items without a recorded
\* entry or with an error entry, in plan order: an item recorded without an
\* error is not executed again, a failed one is; an API failure or safety
\* block records an error entry and the loop goes on to the next item.
C26_ResumeRunsWhatIsDue ==
    /\ ex.st \in { "loop", "save", "rename" } =>
          ExecutedKeys \o ex.remaining = Due(ex.plan, ex.loaded)
    /\ ex.st = "done" =>
          /\ ExecutedKeys = Due(ex.plan, ex.loaded)
          /\ \A i \in 1..Len(ex.executed) :
                \E j \in 1..Len(ex.file.list) :
                    /\ ResultKey(ex.file.list[j]) = ExecutedKeys[i]
                    /\ ex.file.list[j].error = (ex.executed[i].outcome # "ok")

\* A resumed invocation that found rep 1 recorded and rep 2 failed, ran
\* rep 2 alone, and ended although the run was safety-blocked.
C26_Witness ==
    /\ ex.st = "done"
    /\ ex.invocations = 2
    /\ Len(ex.loaded) = 2
    /\ \A i \in 1..2 : ex.loaded[i].timestamp > 0 /\ (ex.loaded[i].error <=> ex.loaded[i].rep = 2)
    /\ Len(ex.executed) = 1
    /\ ex.executed[1].rep = 2
    /\ ex.executed[1].outcome = "blocked"

\* C27: the results file is at every instant absent or a complete list, a
\* crash inside save_results or between runs included; the list holds, for
\* every run whose save was completed, the entry of that run or of a later
\* run of the same key; save_results runs after every finished run, so each
\* interruption loses at most the run in progress.
C27_AtomicSave ==
    /\ ex.file.kind \in { "absent", "list" }
    /\ ex.file.kind = "absent" => ex.saved = << >>
    /\ \A i \in 1..Len(ex.saved) :
          \E j \in 1..Len(ex.file.list) :
              /\ ResultKey(ex.file.list[j]) = ResultKey(ex.saved[i])
              /\ ex.file.list[j].timestamp >= ex.saved[i].timestamp
    /\ (ex.st \in { "loop", "done" } /\ ex.executed # << >>) =>
          ex.file = OnDisk("list", ex.results)
    /\ ex.runs - Len(ex.saved) <= ex.crashes + (IF ex.st \in { "save", "rename" } THEN 1 ELSE 0)

\* The process died inside save_results of its second run: the temporary
\* file is incomplete and the results file is the list of the first save.
C27_Witness ==
    /\ ex.st = "crashed"
    /\ ex.tmp = PartialFile
    /\ ex.file.kind = "list"
    /\ Len(ex.file.list) = 1
    /\ ex.runs = 2
    /\ Len(ex.saved) = 1

-----------------------------------------------------------------------------
(* run_sts_audit: the checker run as a child process on one file with      *)
(* --output <file>.audit.json, and what is made of the outcome.            *)

Parsed(data) == [ tag |-> "report", data |-> data, error |-> "" ]
ErrorRecord(msg) == [ tag |-> "error", data |-> NoData, error |-> msg ]

\* subprocess.run raises (the 30 s timeout, which kills the child): the
\* except branch returns an error record.
AuditRaises ==
    /\ au = NotRun
    /\ pc # "exit"
    /\ au' = ErrorRecord("TimeoutExpired")
    /\ pc' = "exit"
    /\ exit_code' = -9
    /\ err' = "killed"
    /\ out_file' \in (IF pc = "write" THEN { out_file, Partial } ELSE { out_file })
    /\ UNCHANGED << rt, ex, clock, history, first_out,
                    cwd, target, cfg_at, output_arg, doc, cfg_path, config, files,
                    inputs, file_reports, project, stdout, tree, failed >>

\* The child has exited: json.load of the output path if it exists, else an
\* error record made from stderr.
AuditReturns ==
    /\ au = NotRun
    /\ pc = "exit"
    /\ au' = IF out_file.kind \in { "report", "old" } THEN Parsed(out_file.data)
             ELSE IF out_file.kind = "partial" THEN ErrorRecord("Malformed audit JSON")
             ELSE IF err = "SyntaxError" THEN ErrorRecord("SyntaxError in generated code")
             ELSE ErrorRecord("stderr")
    /\ UNCHANGED << checker, rt, ex >>

\* The generated file exists; the output path is absent or holds the report
\* of an earlier invocation.
InitHarness ==
    /\ cwd = << "p" >>
    /\ target \in { t \in MainTargets : IsFileAt(t, << "p" >>) }
    /\ cfg_at \in { { }, { << "p" >> } }
    /\ output_arg = TRUE
    /\ out_file \in { Absent, OldReport }
    /\ pc = "start"
    /\ doc = NoDoc
    /\ cfg_path = None
    /\ config = None
    /\ files = << >>
    /\ inputs = << >>
    /\ file_reports = << >>
    /\ project = None
    /\ stdout = << >>
    /\ tree = { }
    /\ failed = FALSE
    /\ exit_code = Running
    /\ err = "none"
    /\ clock = 0
    /\ history = { }
    /\ first_out = None
    /\ rt = NoRetry
    /\ ex = NoExperiment
    /\ au = NotRun

NextHarness ==
    \/ LoadConfig(MainDocs)
    \/ AuditSingle(MainCases)
    \/ PrintFileReport
    \/ WriteJson
    \/ Finish
    \/ AuditRaises
    \/ AuditReturns

SpecHarness == InitHarness /\ [][NextHarness]_vars

\* C30: run_sts_audit returns a parsed report only if the checker run it
\* has just made wrote that report; when that run wrote none (crash, syntax
\* error in the audited file, timeout) it returns an error record, also
\* when the output path holds the report of an earlier invocation.
C30_FreshReportOnly ==
    /\ au.tag = "report" =>
          /\ out_file.kind = "report"
          /\ au.data = BuildJson(target, file_reports, project)
    /\ (au.tag # "none" /\ out_file.kind # "report") => au.tag = "error"

-----------------------------------------------------------------------------
(* collect_files alone: every working directory, every spelling of every   *)
(* directory target, every tree below it, and several skip lists.          *)

\* The values of [skip] dirs.
SkipSets == { DefaultSkipDirs, { "venv", "p" }, { "s" }, { } }

CollectConfigs == { [DEFAULT_CONFIG EXCEPT !.skip_dirs = sd] : sd \in SkipSets }

InitCollect ==
    /\ cwd \in Dirs
    /\ target \in UNION { Spellings(loc, cwd) : loc \in Dirs }
    /\ cfg_at = { }
    /\ output_arg = FALSE
    /\ out_file = Absent
    /\ pc = "loaded"
    /\ doc = NoDoc
    /\ cfg_path = None
    /\ config \in CollectConfigs
    /\ files = << >>
    /\ inputs = << >>
    /\ file_reports = << >>
    /\ project = None
    /\ stdout = << >>
    /\ tree = { }
    /\ failed = FALSE
    /\ exit_code = Running
    /\ err = "none"
    /\ clock = 0
    /\ history = { }
    /\ first_out = None
    /\ rt = NoRetry
    /\ ex = NoExperiment
    /\ au = NotRun

NextCollect == CollectStep(Trees)

SpecCollect == InitCollect /\ [][NextCollect]_vars

\* The files of the tree that are no package marker and lie in no excluded
\* directory below the target, as paths under the target.
Wanted ==
    { Path(target.abs, target.parts \o rel) :
        rel \in { r \in tree :
                    /\ r[Len(r)] # "__init__.py"
                    /\ \A i \in 1..(Len(r) - 1) : r[i] \notin config.skip_dirs } }

\* C21: collect_files returns exactly the *.py files below the target that
\* are not named __init__.py and have no excluded name among the directories
\* between the target and the file, whatever the target and its ancestors
\* are called.
C21_CollectedFiles ==
    pc # "loaded" =>
        /\ Range(files) = Wanted
        /\ Len(files) = Cardinality(Wanted)

=============================================================================
